---- MODULE Spec2Model ----
(***************************************************************************)
(* A model of the Euphoria <-> Instant bridge of src/main.py: the          *)
(* MessageStore (the id_map table and its watchers) and the Nexus (user    *)
(* records, action queues, the surrogate bot pool, the scheduler and the   *)
(* drain _perform_actions).                                                *)
(*                                                                         *)
(* Representation of values                                                *)
(*   - a Euphoria message id is <<n>>, n = int(id, 36);                    *)
(*   - an Instant message id is <<ts, seq>>, standing for the 16 hex       *)
(*     digits of (ts << 10) + seq; timestamps are counted from             *)
(*     EUPHORIA_ID_EPOCH * 1000;                                           *)
(*   - None is <<>> and the Ellipsis placeholder is <<0, 0, 0>>;           *)
(*   - session ids, nicks and texts are strings, "" standing for None.     *)
(***************************************************************************)
EXTENDS Integers, Sequences, FiniteSets, TLC

None == <<>>
Ellipsis == <<0, 0, 0>>
NoStr == ""

Platforms == {"euphoria", "instant"}
Other(platform) == IF platform = "euphoria" THEN "instant" ELSE "euphoria"

\* ------------------------------------------------------------------------
\* ID codec
\* ------------------------------------------------------------------------
TsShift == 22
SeqBits == 10
TopSeq == 1023

euphoria_id_to_timestamp(msgid) == msgid[1] \div (2 ^ TsShift)

\* (ts << 10) + sequence, kept as the pair of its two bit fields
timestamp_to_instant_id(ts, sequence) ==
  <<ts + (sequence \div (2 ^ SeqBits)), sequence % (2 ^ SeqBits)>>

\* ------------------------------------------------------------------------
\* MessageStore: the table id_map(euphoria TEXT UNIQUE, instant TEXT UNIQUE)
\* is a set of rows <<euphoria, instant>>; the store is [m, w] with m the
\* table and w the watchers dictionary (key <<platform, id>> -> callbacks).
\* Every operation returns [s, ret, fired, err]: the store after it, the
\* value returned, the watcher calls made (<<callback, argument>>, in
\* order) and "ok" or the exception raised.
\* ------------------------------------------------------------------------
SelectByEuphoria(m, i) == {r \in m : r[1] = i}
SelectByInstant(m, i) == {r \in m : r[2] = i}
FetchOne(rs) == IF rs = {} THEN None ELSE CHOOSE r \in rs : TRUE

\* the UNIQUE constraints: NULL never conflicts
Conflicts(m, e, i) ==
  {r \in m : (e # None /\ r[1] = e) \/ (i # None /\ r[2] = i)}

\* INSERT OR REPLACE with the UNIQUE constraints dropped
InsertOrReplaceNoUnique(m, e, i) == m \cup {<<e, i>>}

\* INSERT OR REPLACE INTO id_map(euphoria, instant) VALUES (e, i)
InsertOrReplace(m, e, i) == (m \ Conflicts(m, e, i)) \cup {<<e, i>>}

Pop(w, key) == [k \in DOMAIN w \ {key} |-> w[k]]
Get(w, key) == IF key \in DOMAIN w THEN w[key] ELSE <<>>
Calls(cbs, arg) == [n \in 1..Len(cbs) |-> <<cbs[n], arg>>]

\* _run_watchers calling the watchers without the pop
RunWatchersKept(w, euphoria, instant) ==
  IF euphoria = None \/ instant = None
  THEN [w |-> w, fired |-> <<>>]
  ELSE [w |-> w,
        fired |-> Calls(Get(w, <<"euphoria", euphoria>>), instant)
                    \o Calls(Get(w, <<"instant", instant>>), euphoria)]

\* _run_watchers(euphoria, instant): [w, fired]
RunWatchers(w, euphoria, instant) ==
  IF euphoria = None \/ instant = None
  THEN [w |-> w, fired |-> <<>>]
  ELSE LET ke == <<"euphoria", euphoria>>
           ki == <<"instant", instant>>
       IN [w |-> Pop(Pop(w, ke), ki),
           fired |-> Calls(Get(w, ke), instant) \o Calls(Get(w, ki), euphoria)]

\* the loop of generate_id giving up after its first INSERT
ScanSeqOnce(taken, ts, lo, hi) ==
  IF timestamp_to_instant_id(ts, hi) \in taken THEN -1 ELSE hi

\* the loop "for seq in range(1023, -1, -1)" of generate_id over the
\* sequence numbers lo..hi, taken being the instant column of the table:
\* the first sequence number, counting down from hi, whose INSERT raises no
\* IntegrityError on the instant column, -1 when every INSERT fails. The
\* upper half of the range is tried before the lower half.
RECURSIVE ScanSeq(_, _, _, _)
ScanSeq(taken, ts, lo, hi) ==
  IF lo = hi
  THEN (IF timestamp_to_instant_id(ts, hi) \in taken THEN -1 ELSE hi)
  ELSE LET upper == ScanSeq(taken, ts, (lo + hi) \div 2 + 1, hi)
       IN IF upper >= 0 THEN upper
          ELSE ScanSeq(taken, ts, lo, (lo + hi) \div 2)

\* generate_id returning its first candidate without the INSERT
GenerateIdUnrecorded(s, platform, original) ==
  [s |-> s,
   ret |-> timestamp_to_instant_id(euphoria_id_to_timestamp(original), TopSeq),
   fired |-> <<>>,
   err |-> IF platform = "instant" THEN "RuntimeError" ELSE "ok"]

\* generate_id(platform, original)
GenerateId(s, platform, original) ==
  IF platform = "instant"
  THEN [s |-> s, ret |-> None, fired |-> <<>>, err |-> "RuntimeError"]
  ELSE LET ts == euphoria_id_to_timestamp(original)
           \* every INSERT fails on the euphoria column when original
           \* has a row
           seq == IF SelectByEuphoria(s.m, original) # {} THEN -1
                  ELSE ScanSeq({r[2] : r \in s.m}, ts, 0, TopSeq)
           candidate == timestamp_to_instant_id(ts, seq)
           rw == RunWatchers(s.w, original, candidate)
       IN IF seq < 0
          THEN [s |-> s, ret |-> None, fired |-> <<>>, err |-> "RuntimeError"]
          ELSE [s |-> [m |-> s.m \cup {<<original, candidate>>}, w |-> rw.w],
                ret |-> candidate, fired |-> rw.fired, err |-> "ok"]

\* the keys of dict.fromkeys(ids, ...), in insertion order
RECURSIVE Keys(_)
Keys(ids) ==
  IF ids = <<>> THEN <<>>
  ELSE LET front == Keys(SubSeq(ids, 1, Len(ids) - 1))
           last == ids[Len(ids)]
       IN IF \E n \in 1..Len(front) : front[n] = last THEN front
          ELSE Append(front, last)

\* the dictionary ret with the SELECT loops finding no row
LookupBlind(m, platform, ids) ==
  [k \in {ids[n] : n \in 1..Len(ids)} |-> IF k = None THEN None ELSE Ellipsis]

\* the SELECT loops of translate_ids: the dictionary ret
Lookup(m, platform, ids) ==
  [k \in {ids[n] : n \in 1..Len(ids)} |->
     IF k = None THEN None
     ELSE LET res == FetchOne(IF platform = "euphoria"
                              THEN SelectByEuphoria(m, k)
                              ELSE SelectByInstant(m, k))
          IN IF res = None THEN Ellipsis
             ELSE IF platform = "euphoria" THEN res[2] ELSE res[1]]

\* the create loop of translate_ids over the keys still to visit
RECURSIVE CreateLoop(_, _, _, _, _)
CreateLoop(s, platform, keys, ret, fired) ==
  IF keys = <<>>
  THEN [s |-> s, ret |-> ret, fired |-> fired, err |-> "ok"]
  ELSE LET k == Head(keys)
       IN IF ret[k] # Ellipsis
          THEN CreateLoop(s, platform, Tail(keys), ret, fired)
          ELSE LET g == GenerateId(s, platform, k)
               IN IF g.err # "ok"
                  THEN [s |-> g.s, ret |-> ret, fired |-> fired \o g.fired,
                        err |-> g.err]
                  ELSE CreateLoop(g.s, platform, Tail(keys),
                                  [ret EXCEPT ![k] = g.ret],
                                  fired \o g.fired)

\* translate_ids(platform, ids, create)
TranslateIds(s, platform, ids, create) ==
  LET ret == Lookup(s.m, platform, ids)
  IN IF create THEN CreateLoop(s, platform, Keys(ids), ret, <<>>)
     ELSE [s |-> s, ret |-> ret, fired |-> <<>>, err |-> "ok"]

\* translate_id(platform, ident, create)
TranslateId(s, platform, ident, create) ==
  LET res == TranslateIds(s, platform, <<ident>>, create)
  IN [res EXCEPT !.ret = IF res.err = "ok" THEN res.ret[ident] ELSE None]

\* the list items of update_ids: pairs <<euphoria, instant>>
Items(platform, mapping) ==
  LET kept == SelectSeq(mapping, LAMBDA kv : kv[1] # None)
  IN [n \in 1..Len(kept) |->
        IF platform = "euphoria" THEN <<kept[n][1], kept[n][2]>>
        ELSE <<kept[n][2], kept[n][1]>>]

RECURSIVE UpdateLoop(_, _, _)
UpdateLoop(s, items, fired) ==
  IF items = <<>>
  THEN [s |-> s, ret |-> None, fired |-> fired, err |-> "ok"]
  ELSE LET euphoria == Head(items)[1]
           instant == Head(items)[2]
           rw == RunWatchers(s.w, euphoria, instant)
       IN UpdateLoop([m |-> InsertOrReplace(s.m, euphoria, instant),
                      w |-> rw.w],
                     Tail(items), fired \o rw.fired)

\* update_ids(platform, mapping), mapping a sequence of <<key, value>>
UpdateIds(s, platform, mapping) == UpdateLoop(s, Items(platform, mapping), <<>>)

\* the rows of a DELETE ... WHERE euphoria IS NULL AND instant IS NULL
GcDeletedBothNull(m) == {r \in m : r[1] = None /\ r[2] = None}

\* DELETE FROM id_map WHERE euphoria IS NULL OR instant IS NULL
GcDeleted(m) == {r \in m : r[1] = None \/ r[2] = None}

\* gc(): ret is the row count
Gc(s) ==
  [s |-> [s EXCEPT !.m = s.m \ GcDeleted(s.m)],
   ret |-> Cardinality(GcDeleted(s.m)), fired |-> <<>>, err |-> "ok"]

\* watch_id(platform, ident, callback)
WatchId(s, platform, ident, callback) ==
  IF ident = None
  THEN [s |-> s, ret |-> None, fired |-> <<<<callback, None>>>>, err |-> "ok"]
  ELSE LET res == FetchOne(IF platform = "euphoria"
                           THEN SelectByEuphoria(s.m, ident)
                           ELSE SelectByInstant(s.m, ident))
           val == IF res = None THEN None
                  ELSE IF platform = "euphoria" THEN res[2] ELSE res[1]
           key == <<platform, ident>>
       IN IF val # None
          THEN [s |-> s, ret |-> None, fired |-> <<<<callback, val>>>>,
                err |-> "ok"]
          ELSE [s |-> [s EXCEPT !.w = [k \in DOMAIN s.w \cup {key} |->
                                         IF k = key
                                         THEN Append(Get(s.w, key), callback)
                                         ELSE s.w[k]]],
                ret |-> None, fired |-> <<>>, err |-> "ok"]

\* ------------------------------------------------------------------------
\* Text transcoder. A text is a sequence of characters and of host names
\* (LinkTokens), each host name standing for the characters it is made of.
\* The other characters of the model are "<", ">", "!", " " and letters
\* that are never next to a host name.
\* ------------------------------------------------------------------------
RECURSIVE Join(_)
Join(parts) == IF parts = <<>> THEN <<>> ELSE Head(parts) \o Join(Tail(parts))

LinkTokens == {"a.io", "imgur.com"}

\* the end of the match of CAPTURE_REGEX that starts at the host name
\* text[i]: the domain takes the host names that follow at once, and the
\* trailing group takes host names and "!" up to the last host name
LinkEnd(text, i) ==
  CHOOSE j \in i..Len(text) :
    /\ text[j] \in LinkTokens
    /\ \A k \in i..j : text[k] \in LinkTokens \cup {"!"}
    /\ \A l \in (j + 1)..Len(text) :
         ~(/\ text[l] \in LinkTokens
           /\ \A k \in i..l : text[k] \in LinkTokens \cup {"!"})

\* autolink(source) from index i on, the text span before i starting at
\* from: the pairs (type, text)
RECURSIVE AutolinkFrom(_, _, _)
AutolinkFrom(source, i, from) ==
  IF i > Len(source)
  THEN (IF from <= Len(source)
        THEN <<<<"text", SubSeq(source, from, Len(source))>>>> ELSE <<>>)
  ELSE IF source[i] \in LinkTokens
       THEN ((IF from < i THEN <<<<"text", SubSeq(source, from, i - 1)>>>>
              ELSE <<>>)
             \o <<<<"link", SubSeq(source, i, LinkEnd(source, i))>>>>)
            \o AutolinkFrom(source, LinkEnd(source, i) + 1,
                            LinkEnd(source, i) + 1)
       ELSE AutolinkFrom(source, i + 1, from)

autolink(source) == AutolinkFrom(source, 1, 1)

text_before(parsed, idx) == IF idx = 1 THEN <<>> ELSE parsed[idx - 1][2]
text_after(parsed, idx) ==
  IF idx = Len(parsed) THEN <<>> ELSE parsed[idx + 1][2]

\* re.match(r'<!?$', text_before(idx)) and re.match(r'^>', text_after(idx)):
\* re.match looks for the pattern at the start of the string
Sigilled(parsed, idx) ==
  /\ text_before(parsed, idx) \in {<<"<">>, <<"<", "!">>}
  /\ text_after(parsed, idx) # <<>>
  /\ Head(text_after(parsed, idx)) = ">"

\* the test with a preceding text that only has to end with "<" or "<!"
SigilledAnywhere(parsed, idx) ==
  /\ \E n \in 1..2 :
       /\ Len(text_before(parsed, idx)) >= n
       /\ SubSeq(text_before(parsed, idx),
                 Len(text_before(parsed, idx)) - n + 1,
                 Len(text_before(parsed, idx)))
            = SubSeq(<<"<", "!">>, 1, n)
  /\ text_after(parsed, idx) # <<>>
  /\ Head(text_after(parsed, idx)) = ">"

\* INSTANT_URL_RE.search(text) matches the whole of text: the host part
\* [a-zA-Z0-9.-]+ stops at a "!"
InstantUrl(text) == \A k \in 1..Len(text) : text[k] \in LinkTokens

\* IMAGE_URL.match(text): imgur.com and a word boundary after it
ImageUrl(text) == text = <<"imgur.com">>

\* the string the Euphoria branch joins for item idx of parsed
Item(parsed, idx) ==
  IF /\ parsed[idx][1] = "link"
     /\ ~Sigilled(parsed, idx)
     /\ InstantUrl(parsed[idx][2])
  THEN ((IF ImageUrl(parsed[idx][2]) THEN <<"<", "!">> ELSE <<"<">>)
        \o parsed[idx][2]) \o <<">">>
  ELSE parsed[idx][2]

\* translate_message_text(platform, text); INSTANT_URL_SEARCH matches
\* nothing in the texts of Instant in this model (they hold no "<"), so the
\* loop of the Instant branch ends at once and text[idx:] is appended
translate_message_text(platform, text) ==
  IF platform = "euphoria"
  THEN Join([idx \in 1..Len(autolink(text)) |-> Item(autolink(text), idx)])
  ELSE Join(IF text = <<>> THEN <<>> ELSE <<SubSeq(text, 1, Len(text))>>)

\* basebot.parse_command: the words of the text
RECURSIVE Words(_, _)
Words(text, word) ==
  IF text = <<>> THEN (IF word = <<>> THEN <<>> ELSE <<word>>)
  ELSE IF Head(text) = " "
       THEN (IF word = <<>> THEN <<>> ELSE <<word>>) \o Words(Tail(text), <<>>)
       ELSE Words(Tail(text), Append(word, Head(text)))
parse_command(text) == Words(text, <<>>)

StartsWith(text, prefix) ==
  Len(text) >= Len(prefix) /\ SubSeq(text, 1, Len(prefix)) = prefix

NICKNAME == <<"b", "r", "i", "d", "g", "e">>
HelpCommand == <<"!", "h", "e", "l", "p">>

\* ping_matches(ping, nick), nicks of the model being normalized already
ping_matches(ping, nick) == StartsWith(ping, <<"@">>) /\ Tail(ping) = nick

\* the condition of handle_command under which reply() is called
HelpRequested(tokens) ==
  /\ tokens # <<>>
  /\ tokens[1] = HelpCommand
  /\ (Len(tokens) = 1 \/ ping_matches(tokens[2], NICKNAME))

\* the application-level sequence platform + ':' + msgid and its parsing
Stamp(platform, msgid) == <<platform, ":", msgid>>
StampStartsWith(sequence, platform) ==
  Len(sequence) >= 2 /\ sequence[1] = platform /\ sequence[2] = ":"
StampPartition2(sequence) == sequence[3]

\* ------------------------------------------------------------------------
\* Nexus: user records
\* ------------------------------------------------------------------------
SURROGATE_DELAY == 2
NoDelay == -1

\* the record _get_user creates, after its setdefault calls
NewUser ==
  [euphoria_id |-> NoStr, instant_id |-> NoStr, ignore |-> FALSE,
   delay |-> NoDelay, nick |-> NoStr, actions |-> <<>>, platform |-> NoStr,
   group |-> None]

\* a query or user dictionary; NoStr and None stand for an absent key
Query(platform, euphoria_id, instant_id, nick, group) ==
  [platform |-> platform, euphoria_id |-> euphoria_id,
   instant_id |-> instant_id, nick |-> nick, group |-> group]

Put(f, k, v) == [x \in DOMAIN f \cup {k} |-> IF x = k THEN v ELSE f[x]]

\* _get_user that files a new record under the session id without
\* writing the id into the record
GetUserUnkeyed(U, query, create) ==
  IF ~create \/ query.euphoria_id \in DOMAIN U.eu
       \/ query.instant_id \in DOMAIN U.iu
  THEN [U |-> U,
        ret |-> IF query.instant_id \in DOMAIN U.iu
                THEN U.iu[query.instant_id]
                ELSE IF query.euphoria_id \in DOMAIN U.eu
                     THEN U.eu[query.euphoria_id] ELSE 0]
  ELSE [U |-> [recs |-> Append(U.recs, NewUser),
               eu |-> IF query.euphoria_id # NoStr
                      THEN Put(U.eu, query.euphoria_id, Len(U.recs) + 1)
                      ELSE U.eu,
               iu |-> IF query.instant_id # NoStr
                      THEN Put(U.iu, query.instant_id, Len(U.recs) + 1)
                      ELSE U.iu],
        ret |-> Len(U.recs) + 1]

\* _get_user(query, create) on U = [eu, iu, recs]: [U, ret], ret = 0 for None
GetUser(U, query, create) ==
  LET eid == query.euphoria_id
      iid == query.instant_id
      \* the euphoria_id branch
      foundE == eid # NoStr /\ eid \in DOMAIN U.eu
      makeE == eid # NoStr /\ eid \notin DOMAIN U.eu /\ create
      U1 == IF makeE
            THEN [U EXCEPT !.recs = Append(U.recs,
                                      [NewUser EXCEPT !.euphoria_id = eid]),
                           !.eu = Put(U.eu, eid, Len(U.recs) + 1)]
            ELSE U
      ret1 == IF foundE THEN U.eu[eid]
              ELSE IF makeE THEN Len(U.recs) + 1 ELSE 0
      \* the instant_id branch
      foundI == iid # NoStr /\ iid \in DOMAIN U1.iu
      makeI == iid # NoStr /\ iid \notin DOMAIN U1.iu /\ create
      U2 == IF makeI /\ ret1 = 0
            THEN [U1 EXCEPT !.recs = Append(U1.recs, NewUser)]
            ELSE U1
      ret2 == IF foundI THEN U1.iu[iid]
              ELSE IF makeI
                   THEN (IF ret1 = 0 THEN Len(U1.recs) + 1 ELSE ret1)
                   ELSE ret1
      U3 == IF makeI
            THEN [U2 EXCEPT !.recs[ret2].instant_id = iid,
                            !.iu = Put(U2.iu, iid, ret2)]
            ELSE U2
  IN [U |-> U3, ret |-> ret2]

\* an entry of an action queue; n numbers the entries in the order in which
\* they were appended
UserAction(u, n) ==
  [kind |-> "user", nick |-> u.nick, msgid |-> None, parent |-> None,
   text |-> <<>>, n |-> n]
TextAction(data, n) ==
  [kind |-> "text", nick |-> data.nick, msgid |-> data.msgid,
   parent |-> data.parent, text |-> data.text, n |-> n]
RemoveAction(n) ==
  [kind |-> "remove", nick |-> NoStr, msgid |-> None, parent |-> None,
   text |-> <<>>, n |-> n]

\* the assignments the loop of add_users makes to the entry of user u
Updated(entry, u, delay, n) ==
  [entry EXCEPT
     !.platform = IF u.platform # NoStr THEN u.platform ELSE @,
     !.group = IF u.group # None THEN u.group ELSE @,
     !.nick = IF u.nick # NoStr THEN u.nick ELSE @,
     !.actions = IF u.nick # NoStr THEN Append(@, UserAction(u, n)) ELSE @,
     !.delay = IF delay # NoDelay /\ (@ = NoDelay \/ @ < delay)
               THEN delay ELSE @]

\* the body of the loop of add_users for one user u, g the result of
\* _get_user(u, True): [U, entry, n]
AddEntry(g, u, delay, n) ==
  [U |-> [g.U EXCEPT !.recs[g.ret] = Updated(@, u, delay, n)],
   entry |-> g.ret,
   n |-> IF u.nick # NoStr THEN n + 1 ELSE n]

AddOne(U, u, delay, n) == AddEntry(GetUser(U, u, TRUE), u, delay, n)

\* the loop of add_users: [U, pending, n]
RECURSIVE AddLoop(_, _, _, _, _)
AddRest(a, users, delay, pending) ==
  AddLoop(a.U, Tail(users), delay, a.n, Append(pending, a.entry))

AddLoop(U, users, delay, n, pending) ==
  IF users = <<>> THEN [U |-> U, pending |-> pending, n |-> n]
  ELSE AddRest(AddOne(U, Head(users), delay, n), users, delay, pending)

DrainTask(due, entries) ==
  [kind |-> "drain", due |-> due, entries |-> entries,
   euphoria_parent |-> None, instant_parent |-> None, text |-> <<>>]
SendTask(due, euphoria_parent, instant_parent, text) ==
  [kind |-> "do_send", due |-> due, entries |-> <<>>,
   euphoria_parent |-> euphoria_parent, instant_parent |-> instant_parent,
   text |-> text]

\* add_users(users, new, _run) at time t: [U, n, tasks], tasks the
\* callables handed to the scheduler
AddUsersOp(U, users, new, run, t, n) ==
  LET delay == IF new THEN t + SURROGATE_DELAY ELSE NoDelay
      l == AddLoop(U, users, delay, n, <<>>)
  IN [U |-> l.U, n |-> l.n,
      tasks |-> IF run
                THEN <<DrainTask(IF new THEN delay ELSE t, l.pending)>>
                ELSE <<>>]

\* the loop of remove_users: [U, pending, n]
RECURSIVE RemoveLoop(_, _, _, _)
RemoveLoop(U, users, n, pending) ==
  IF users = <<>> THEN [U |-> U, pending |-> pending, n |-> n]
  ELSE LET u == Head(users)
           hasE == u.euphoria_id # NoStr /\ u.euphoria_id \in DOMAIN U.eu
           ue == IF hasE THEN U.eu[u.euphoria_id] ELSE 0
           U1 == IF hasE
                 THEN [U EXCEPT !.eu = Pop(U.eu, u.euphoria_id),
                                !.recs[ue].actions =
                                   Append(@, RemoveAction(n))]
                 ELSE U
           n1 == IF hasE THEN n + 1 ELSE n
           p1 == IF hasE THEN Append(pending, ue) ELSE pending
           hasI == u.instant_id # NoStr /\ u.instant_id \in DOMAIN U1.iu
           ui == IF hasI THEN U1.iu[u.instant_id] ELSE 0
           U2 == IF hasI
                 THEN [U1 EXCEPT !.iu = Pop(U1.iu, u.instant_id),
                                 !.recs[ui].actions =
                                    Append(@, RemoveAction(n1))]
                 ELSE U1
           n2 == IF hasI THEN n1 + 1 ELSE n1
           p2 == IF hasI THEN Append(p1, ui) ELSE p1
       IN RemoveLoop(U2, Tail(users), n2, p2)

\* remove_users(users) at time t
RemoveUsersOp(U, users, t, n) ==
  LET l == RemoveLoop(U, users, n, <<>>)
  IN [U |-> l.U, n |-> l.n, tasks |-> <<DrainTask(t, l.pending)>>]

\* the loop of ignore_users after its add_users call
RECURSIVE IgnoreLoop(_, _)
IgnoreLoop(U, users) ==
  IF users = <<>> THEN U
  ELSE LET entry == GetUser(U, Head(users), FALSE).ret
       IN IgnoreLoop([U EXCEPT !.recs[entry].ignore = TRUE], Tail(users))

\* ignore_users(users)
IgnoreUsersOp(U, users, t, n) ==
  LET a == AddUsersOp(U, users, FALSE, FALSE, t, n)
  IN [U |-> IgnoreLoop(a.U, users), n |-> a.n, tasks |-> <<>>]

\* ------------------------------------------------------------------------
\* Nexus: surrogate bots, watcher callbacks
\* ------------------------------------------------------------------------
HELP_TEMPLATE == <<"I", " ", "r", "e", "l", "a", "y">>

\* _bot_ident(entry)
BotIdent(entry) ==
  IF entry.platform = "euphoria" THEN <<"e/", entry.euphoria_id>>
  ELSE <<"i/", entry.instant_id>>

\* the bot main.make_bot(entry, on_ready) returns: a send bot on the
\* opposite platform, started and not ready; runner is the entry its
\* on_ready callback drains
MakeBot(ident, entry, e) ==
  [ident |-> ident, runner |-> e, platform |-> Other(entry.platform),
   ready |-> FALSE, nickname |-> NoStr, conn |-> "open", session |-> NoStr,
   out |-> <<>>, posts |-> <<>>]

\* a command a drain issues on a bot for an action of entry e; n is the
\* number of the action
Command(cmd, e, action, parent, sequence) ==
  [cmd |-> cmd, e |-> e, n |-> action.n, nick |-> action.nick,
   origin |-> action.parent, parent |-> parent, text |-> action.text,
   sequence |-> sequence]

\* the callbacks handed to watch_id: the lambda of _perform_actions and
\* parent_resolved of send_bridge_message
DrainCallback(e) ==
  [kind |-> "drain", entry |-> e, platform |-> NoStr, parent |-> None,
   text |-> <<>>]
ParentResolved(platform, parent, text) ==
  [kind |-> "parent_resolved", entry |-> 0, platform |-> platform,
   parent |-> parent, text |-> text]

\* the callbacks of request_messages: before_translated, handed to
\* watch_id, and the lambda around check(orig, translated) that watch_ids
\* registers for the pending key orig of log request g
BeforeTranslated(g, before) ==
  [kind |-> "before_translated", entry |-> g, platform |-> "instant",
   parent |-> before, text |-> <<>>]
CheckCallback(g, platform, orig) ==
  [kind |-> "check", entry |-> g, platform |-> platform, parent |-> orig,
   text |-> <<>>]

\* the callable "lambda: run_query(result)" of log request g
QueryTask(due, g, translated) ==
  [kind |-> "run_query", due |-> due, entries |-> <<g>>,
   euphoria_parent |-> translated, instant_parent |-> None, text |-> <<>>]

\* what one watcher call does: the callables it hands to the scheduler.
\* "lambda result: runner" returns the runner and calls nothing.
CallbackTasks(call, t) ==
  LET cb == call[1]
      arg == call[2]
  IN IF cb.kind = "parent_resolved"
     THEN IF cb.platform = "euphoria"
          THEN <<SendTask(t, cb.parent, arg, cb.text)>>
          ELSE <<SendTask(t, arg, cb.parent, cb.text)>>
     ELSE IF cb.kind = "before_translated"
          THEN <<QueryTask(t, cb.entry, arg)>>
          ELSE <<>>

RECURSIVE FiredTasks(_, _)
FiredTasks(fired, t) ==
  IF fired = <<>> THEN <<>>
  ELSE CallbackTasks(Head(fired), t) \o FiredTasks(Tail(fired), t)

\* ------------------------------------------------------------------------
\* Log requests: request_messages and watch_ids. A log request is a record
\* [stage, before, after, maxlen, bound, logs, ret, pending, mappings,
\* delivered]: ret and pending are the variables of the same name of
\* watch_ids, mappings the dictionaries its callback was called with and
\* delivered the lists process_result passed to the bridge bot's send_log.
\* ------------------------------------------------------------------------
MAX_LOG_REQUEST == 100
NoLen == -1

\* x < y for two Instant ids as Python compares them: as strings of 16
\* uppercase hex digits, which is the order of the numbers (ts << 10) + seq
IdLess(x, y) == x[1] < y[1] \/ (x[1] = y[1] /\ x[2] < y[2])

\* a message of a log batch of Euphoria
LogMsg(id, parent) ==
  [id |-> id, parent |-> parent, content |-> <<"h", "i">>]

\* process_result without the test of "after"
ProcessResultUnfiltered(logs, mapping, after) ==
  [n \in 1..Len(logs) |->
     [id |-> mapping[logs[n].id], parent |-> mapping[logs[n].parent],
      text |-> translate_message_text("euphoria", logs[n].content)]]

\* process_result(logs, mapping): the list handed to callback
RECURSIVE process_result(_, _, _)
process_result(logs, mapping, after) ==
  IF logs = <<>> THEN <<>>
  ELSE IF after # None /\ IdLess(mapping[Head(logs).id], after)
       THEN process_result(Tail(logs), mapping, after)
       ELSE <<[id |-> mapping[Head(logs).id],
               parent |-> mapping[Head(logs).parent],
               text |-> translate_message_text("euphoria",
                                               Head(logs).content)]>>
              \o process_result(Tail(logs), mapping, after)

\* the request after request_messages has clamped maxlen
NewQuery(before, after, maxlen) ==
  [stage |-> "before", before |-> before, after |-> after,
   maxlen |-> IF maxlen = NoLen \/ maxlen > MAX_LOG_REQUEST
              THEN MAX_LOG_REQUEST ELSE maxlen,
   translated |-> None, sent |-> None, bound |-> None, logs |-> <<>>,
   ret |-> [x \in {} |-> None],
   pending |-> {}, mappings |-> <<>>, delivered |-> <<>>]

\* callback(ret) of watch_ids: process_result and send_log
Delivered(q) ==
  [q EXCEPT !.stage = "sent",
            !.mappings = Append(@, q.ret),
            !.delivered = Append(@, process_result(q.logs, q.ret, q.after))]

\* check(orig, translated) for an orig that is not None
Checked(q, orig, translated) ==
  IF q.pending \ {orig} = {}
  THEN Delivered([q EXCEPT !.ret[orig] = translated, !.pending = {}])
  ELSE [q EXCEPT !.ret[orig] = translated, !.pending = @ \ {orig}]

\* the log requests after one watcher call
AfterCall(qs, cb, arg) ==
  IF cb.kind = "check"
  THEN [qs EXCEPT ![cb.entry] = Checked(@, cb.parent, arg)]
  ELSE IF cb.kind = "before_translated"
       THEN [qs EXCEPT ![cb.entry].stage = "scheduled"]
       ELSE qs

\* the log requests after the watcher calls fired, in order
RECURSIVE ApplyFired(_, _)
ApplyFired(qs, fired) ==
  IF fired = <<>> THEN qs
  ELSE ApplyFired(AfterCall(qs, Head(fired)[1], Head(fired)[2]), Tail(fired))

\* Locks. Nexus.lock, MessageStore.lock and Nexus.bot_lock are RLocks: a
\* thread that takes the lock it holds does not wait, so that is no
\* operation here.
Locks == {"nexus.lock", "messages.lock", "bot_lock"}
Acquire(lock) == <<"acquire", lock>>
Io(call) == <<"io", call>>

\* the operations ops made by a thread that holds the locks held
Within(held, ops) ==
  {<<x[1], x[2][1], x[2][2]>> :
     x \in {y \in held \X ops : y[2] # Acquire(y[1])}}

\* what a watcher call does besides handing a callable to the scheduler:
\* check() of the last pending key calls process_result and with it
\* send_log, which is send_unicast on the Instant bridge bot
CallOpsLocking(qs, cb) ==
  IF cb.kind = "parent_resolved" THEN {Acquire("nexus.lock")} ELSE {}
CallOps(qs, cb) ==
  IF cb.kind = "check" /\ qs[cb.entry].pending \subseteq {cb.parent}
  THEN {Io("send_unicast")}
  ELSE {}

\* the operations of the watcher calls fired, in order
RECURSIVE FiredOps(_, _)
FiredOps(qs, fired) ==
  IF fired = <<>> THEN {}
  ELSE CallOps(qs, Head(fired)[1])
         \cup FiredOps(AfterCall(qs, Head(fired)[1], Head(fired)[2]),
                       Tail(fired))

\* the locks watch_id holds when it calls the callback at once
WatchLocks(ident) == IF ident = None THEN {} ELSE {"messages.lock"}

\* the loop of watch_ids over the pending keys: the watchers it registers
RECURSIVE Register(_, _, _, _)
Register(w, platform, g, keys) ==
  IF keys = <<>> THEN w
  ELSE Register(Put(w, <<platform, Head(keys)>>,
                    Append(Get(w, <<platform, Head(keys)>>),
                           CheckCallback(g, platform, Head(keys)))),
                platform, g, Tail(keys))

\* watch_ids that takes no key for pending
PendingKeysNone(ret, keys) == <<>>

\* the keys k of ret with "k is not None and v is None"
PendingKeys(ret, keys) == SelectSeq(keys, LAMBDA k : k # None /\ ret[k] = None)

\* watch_ids after its call tr of translate_ids, up to check(None, None):
\* [s, ret, pending, fired, err]
Watching(tr, platform, g, keys) ==
  IF tr.err # "ok"
  THEN [s |-> tr.s, ret |-> tr.ret, pending |-> {}, fired |-> tr.fired,
        err |-> tr.err]
  ELSE [s |-> [m |-> tr.s.m, w |-> Register(tr.s.w, platform, g, keys)],
        ret |-> tr.ret, pending |-> {keys[n] : n \in 1..Len(keys)},
        fired |-> tr.fired, err |-> "ok"]

WatchIdsOn(tr, platform, idents, g) ==
  Watching(tr, platform, g,
           IF tr.err = "ok" THEN PendingKeys(tr.ret, Keys(idents)) ELSE <<>>)

\* watch_ids(platform, idents, callback, create) for log request g
WatchIds(s, platform, idents, create, g) ==
  WatchIdsOn(TranslateIds(s, platform, idents, create), platform, idents, g)

\* the log request g after process_logs(logs) has called watch_ids with
\* result r: check(None, None) calls the callback when nothing is pending
AfterWatchIds(q, logs, r) ==
  IF r.err # "ok" THEN [q EXCEPT !.stage = "failed", !.logs = logs]
  ELSE IF r.pending = {}
       THEN Delivered([q EXCEPT !.logs = logs, !.ret = r.ret])
       ELSE [q EXCEPT !.stage = "watching", !.logs = logs, !.ret = r.ret,
                      !.pending = r.pending]

\* the set ids of process_logs: the ids of the messages and their parents
LogIds(logs) ==
  {logs[n].id : n \in 1..Len(logs)} \cup {logs[n].parent : n \in 1..Len(logs)}

\* the orders in which iterating over a Python set may yield its members
Orders(S) ==
  {o \in [1..Cardinality(S) -> S] : \A x \in S : \E n \in DOMAIN o : o[n] = x}

\* a running call of _perform_actions(entries)
NoAction == RemoveAction(0)
Frame(t, entries) ==
  [now |-> t, todo |-> entries, pc |-> "check", e |-> 0, bot |-> 0,
   action |-> NoAction, tr_parent |-> None]

\* ------------------------------------------------------------------------
\* State
\* ------------------------------------------------------------------------
VARIABLES
  id_map,          \* MessageStore: the rows of the table
  watchers,        \* MessageStore.watchers
  now,             \* scheduler.time()
  euphoria_users,  \* Nexus.euphoria_users: session id -> record
  instant_users,   \* Nexus.instant_users
  recs,            \* the user records (dictionaries) ever created
  nact,            \* the number the next appended action gets
  bots,            \* Nexus.bots: identity -> bot
  botobjs,         \* the bots make_bot ever returned
  sched,           \* the callables waiting in the scheduler
  frames,          \* the running _perform_actions calls, by thread:
                   \* 0 the scheduler thread, b > 0 the thread of bot b
  last_sequence,   \* Nexus._last_sequence
  bridge_out,      \* the posts submitted on the two bridge bots
  commands,        \* the messages handle_command replied to
  used,            \* the message ids the platforms have given out
  received,        \* the messages handle_message was called with
  queries,         \* the log requests request_messages was called with
  db,              \* MessageStore.conn: [sync, the value of BRIDGE_DB_SYNC in
                   \* os.environ; open, init() has connected; executed,
                   \* the values PRAGMA synchronous was executed with]
  under,           \* <<lock, kind, name>>: what a thread did while it held
                   \* lock: acquire the other lock name, or make the
                   \* platform client call name (kind "io")
  error,           \* the exception the last handler call let escape
  calls            \* the number of platform events handled

vars == <<id_map, watchers, now, euphoria_users, instant_users, recs, nact,
          bots, botobjs, sched, frames, last_sequence, bridge_out, commands,
          used, received, queries, db, under, error, calls>>

Store == [m |-> id_map, w |-> watchers]
Users == [eu |-> euphoria_users, iu |-> instant_users, recs |-> recs]

SetStore(s) == id_map' = s.m /\ watchers' = s.w
SetUsers(U) ==
  euphoria_users' = U.eu /\ instant_users' = U.iu /\ recs' = U.recs

Empty == [x \in {} |-> 0]

\* the state after construction, but for os.environ
Constructed ==
  /\ id_map = {}
  /\ watchers = Empty
  /\ now = 0
  /\ euphoria_users = Empty
  /\ instant_users = Empty
  /\ recs = <<>>
  /\ nact = 1
  /\ bots = Empty
  /\ botobjs = <<>>
  /\ sched = <<>>
  /\ frames = Empty
  /\ last_sequence = 0
  /\ bridge_out = <<>>
  /\ commands = {}
  /\ used = {}
  /\ received = {}
  /\ queries = <<>>
  /\ under = {}
  /\ error = ""
  /\ calls = 0

\* BRIDGE_DB_SYNC is not set: os.environ.get('BRIDGE_DB_SYNC', '')
Init ==
  /\ Constructed
  /\ db = [sync |-> <<>>, open |-> FALSE, executed |-> <<>>]

\* ------------------------------------------------------------------------
\* Platform events: the public operations of the Nexus
\* ------------------------------------------------------------------------
\* add_users(users, new)
AddUsers(users, new) ==
  LET a == AddUsersOp(Users, users, new, TRUE, now, nact)
  IN /\ SetUsers(a.U)
     /\ nact' = a.n
     /\ sched' = sched \o a.tasks
     /\ error' = ""
     /\ calls' = calls + 1
     /\ UNCHANGED <<id_map, watchers, now, db, bots, botobjs, frames,
                    last_sequence, bridge_out, commands, used, received,
                    queries, under>>

\* remove_users(users)
RemoveUsers(users) ==
  LET a == RemoveUsersOp(Users, users, now, nact)
  IN /\ SetUsers(a.U)
     /\ nact' = a.n
     /\ sched' = sched \o a.tasks
     /\ error' = ""
     /\ calls' = calls + 1
     /\ UNCHANGED <<id_map, watchers, now, db, bots, botobjs, frames,
                    last_sequence, bridge_out, commands, used, received,
                    queries, under>>

\* remove_group(group): the generators iterate over the keys of the two
\* dictionaries, which are session ids (strings); u.get raises
\* AttributeError for the first key, before remove_users is reached
RemoveGroup(group) ==
  IF DOMAIN euphoria_users # {} \/ DOMAIN instant_users # {}
  THEN /\ error' = "AttributeError"
       /\ calls' = calls + 1
       /\ UNCHANGED <<id_map, watchers, now, db, euphoria_users,
                      instant_users, recs, nact, bots, botobjs, sched, frames,
                      last_sequence, bridge_out, commands, used, received,
                      queries, under>>
  ELSE RemoveUsers(<<>>)

\* ignore_users(users)
IgnoreUsers(users) ==
  LET a == IgnoreUsersOp(Users, users, now, nact)
  IN /\ SetUsers(a.U)
     /\ nact' = a.n
     /\ error' = ""
     /\ calls' = calls + 1
     /\ UNCHANGED <<id_map, watchers, now, db, bots, botobjs, sched, frames,
                    last_sequence, bridge_out, commands, used, received,
                    queries, under>>

\* send_bridge_message(platform, parent, text) up to its watch_id call
SendBridgeMessage(s, platform, parent, text) ==
  WatchId(s, platform, parent, ParentResolved(platform, parent, text))

\* IsCommand without the test of 'ignore'
IsCommandAnySender(entry, text) ==
  StartsWith(text, <<"!">>) /\ HelpRequested(parse_command(text))

\* the test of handle_message before handle_command, and handle_command's
IsCommand(entry, text) ==
  /\ ~entry.ignore
  /\ StartsWith(text, <<"!">>)
  /\ HelpRequested(parse_command(text))

NoCall(s) == [s |-> s, ret |-> None, fired |-> <<>>, err |-> "ok"]

\* a drain on some thread is inside its while loop for entry e
Inside(e) ==
  \E t \in DOMAIN frames :
    frames[t].pc \in {"pop", "act", "submit"} /\ frames[t].e = e

\* what is recorded of a call of handle_message: the stamp its post would
\* carry, the sender's entry and that entry's 'ignore' at the time of the
\* call, and whether a drain was working on the entry
Received(data, e, entry) ==
  [sequence |-> Stamp(entry.platform, data.msgid), e |-> e,
   parent |-> data.parent, ignore |-> entry.ignore, busy |-> Inside(e)]

\* handle_message(data); data is a user dictionary with msgid, parent, text.
\* a: add_users(..., _run=False); entry: _get_user(data); text: the
\* translated text; w: the reply of handle_command
HandleMessage(data) ==
  \E a \in {AddUsersOp(Users, <<Query(data.platform, data.euphoria_id,
                                      data.instant_id, data.nick, None)>>,
                       FALSE, FALSE, now, nact)} :
  \E entry \in {GetUser(a.U, data, FALSE).ret} :
  \E text \in {translate_message_text(a.U.recs[entry].platform, data.text)} :
  \E command \in {IsCommand(a.U.recs[entry], text)} :
  \E w \in {IF command
            THEN SendBridgeMessage(Store, a.U.recs[entry].platform,
                                   data.msgid, HELP_TEMPLATE)
            ELSE NoCall(Store)} :
    /\ SetUsers([a.U EXCEPT !.recs[entry].actions =
                   Append(@, TextAction([data EXCEPT !.text = text], a.n))])
    /\ nact' = a.n + 1
    /\ SetStore(w.s)
    /\ sched' = (sched \o <<DrainTask(now, <<entry>>)>>)
                  \o FiredTasks(w.fired, now)
    /\ queries' = ApplyFired(queries, w.fired)
    /\ under' = (under \cup Within({"nexus.lock"},
                                  IF command THEN {Acquire("messages.lock")}
                                  ELSE {}))
                   \cup Within({"nexus.lock", "messages.lock"},
                               FiredOps(queries, w.fired))
    /\ commands' = IF command
                   THEN commands \cup {<<a.U.recs[entry].platform,
                                         data.msgid>>}
                   ELSE commands
    /\ used' = used \cup {data.msgid}
    /\ received' = received \cup {Received(data, entry, a.U.recs[entry])}
    /\ error' = ""
    /\ calls' = calls + 1
    /\ UNCHANGED <<now, db, bots, botobjs, frames, last_sequence, bridge_out>>

\* add_mapping(data)
AddMappingOp(s, euphoria, instant) ==
  UpdateIds(s, "euphoria", <<<<euphoria, instant>>>>)

\* ------------------------------------------------------------------------
\* The scheduler thread and the drain _perform_actions
\* ------------------------------------------------------------------------
Remove(seq, k) == SubSeq(seq, 1, k - 1) \o SubSeq(seq, k + 1, Len(seq))

\* time passes
Tick ==
  /\ now' = now + 1
  /\ UNCHANGED <<db, id_map, watchers, euphoria_users, instant_users, recs,
                 nact, bots, botobjs, sched, frames, last_sequence,
                 bridge_out, commands, used, received, queries, under, error,
                 calls>>

\* the scheduler thread, idle, starts a due callable that is a drain:
\* _perform_actions(entries) reads the time and enters its loop
RunDrain(k) ==
  /\ 0 \notin DOMAIN frames
  /\ k \in 1..Len(sched)
  /\ sched[k].kind = "drain"
  /\ sched[k].due <= now
  /\ sched' = Remove(sched, k)
  /\ frames' = Put(frames, 0, Frame(now, sched[k].entries))
  /\ UNCHANGED <<id_map, watchers, now, db, euphoria_users, instant_users,
                 recs, nact, bots, botobjs, last_sequence, bridge_out,
                 commands, used, received, queries, under, error, calls>>

\* a post do_send submits on a bridge bot. callback: the bot still holds
\* the callback under the sequence; id: ids[platform] of the call of
\* send_bridge_message; mapped: the add_mapping calls its callback made
BridgePost(platform, parent, text, n) ==
  [platform |-> platform, parent |-> parent, text |-> text,
   sequence |-> <<"nexus", ":", <<n>>>>, callback |-> TRUE,
   id |-> Ellipsis, mapped |-> 0]

\* the scheduler thread runs do_send of send_bridge_message: one post on
\* each bridge bot, each with a fresh '_sequence()'
RunSend(k) ==
  /\ 0 \notin DOMAIN frames
  /\ k \in 1..Len(sched)
  /\ sched[k].kind = "do_send"
  /\ sched[k].due <= now
  /\ sched' = Remove(sched, k)
  /\ last_sequence' = last_sequence + 2
  /\ bridge_out' = bridge_out \o
       << BridgePost("euphoria", sched[k].euphoria_parent, sched[k].text,
                     last_sequence + 1),
          BridgePost("instant", sched[k].instant_parent, sched[k].text,
                     last_sequence + 2) >>
  /\ UNCHANGED <<id_map, watchers, now, db, euphoria_users, instant_users,
                 recs, nact, bots, botobjs, frames, commands, used, received,
                 queries, under, error, calls>>

\* the callable "lambda: euphoria_cb(p)" or "lambda: instant_cb(p)" for
\* post n of bridge_out and the id x of the reply
CbTask(due, n, x) ==
  [kind |-> "cb", due |-> due, entries |-> <<n>>, euphoria_parent |-> x,
   instant_parent |-> x, text |-> <<>>]

\* the platform answers post n of a bridge bot with the id x of the new
\* message: the callback registered under the sequence is popped and hands
\* euphoria_cb / instant_cb to the scheduler
BridgeReply(n, x) ==
  /\ n \in 1..Len(bridge_out)
  /\ bridge_out[n].callback
  /\ x \notin used
  /\ bridge_out' = [bridge_out EXCEPT ![n].callback = FALSE]
  /\ sched' = Append(sched, CbTask(now, n, x))
  /\ used' = used \cup {x}
  /\ UNCHANGED <<id_map, watchers, now, db, euphoria_users, instant_users,
                 recs, nact, bots, botobjs, frames, last_sequence, commands,
                 received, queries, under, error, calls>>

\* the other post of the same do_send
Partner(n) == IF n % 2 = 1 THEN n + 1 ELSE n - 1

\* the dictionary ids after the callback of post n has stored x
IdsOf(posts, n, x) ==
  IF posts[n].platform = "euphoria"
  THEN [euphoria |-> x, instant |-> posts[Partner(n)].id]
  ELSE [euphoria |-> posts[Partner(n)].id, instant |-> x]

\* the scheduler thread runs euphoria_cb(packet) or instant_cb(packet)
RunCb(k) ==
  /\ 0 \notin DOMAIN frames
  /\ k \in 1..Len(sched)
  /\ sched[k].kind = "cb"
  /\ sched[k].due <= now
  /\ \E n \in {sched[k].entries[1]} :
     \E ids \in {IdsOf(bridge_out, n, sched[k].euphoria_parent)} :
     \E r \in {IF bridge_out[Partner(n)].id # Ellipsis
                THEN AddMappingOp(Store, ids.euphoria, ids.instant)
                ELSE NoCall(Store)} :
       /\ bridge_out' = [bridge_out EXCEPT
            ![n].id = sched[k].euphoria_parent,
            ![n].mapped = IF bridge_out[Partner(n)].id # Ellipsis
                          THEN @ + 1 ELSE @]
       /\ SetStore(r.s)
       /\ sched' = Remove(sched, k) \o FiredTasks(r.fired, now)
       /\ queries' = ApplyFired(queries, r.fired)
       /\ under' = under \cup Within({"messages.lock"},
                                    FiredOps(queries, r.fired))
  /\ UNCHANGED <<now, db, euphoria_users, instant_users, recs, nact, bots,
                 botobjs, frames, last_sequence, commands, used, received,
                 error, calls>>

\* get_bot(entry, on_ready): [bots, botobjs, bot], and ops, what it does
\* while it holds bot_lock: make_bot ends with bot.start()
\* get_bot without the test "identity not in self.bots"
GetBotUnguarded(bs, objs, entry, e) ==
  [bots |-> Put(bs, BotIdent(entry), Len(objs) + 1),
   botobjs |-> Append(objs, MakeBot(BotIdent(entry), entry, e)),
   bot |-> Len(objs) + 1, ops |-> {Io("start")}]

GetBot(bs, objs, entry, e) ==
  LET identity == BotIdent(entry)
  IN IF identity \notin DOMAIN bs
     THEN [bots |-> Put(bs, identity, Len(objs) + 1),
           botobjs |-> Append(objs, MakeBot(identity, entry, e)),
           bot |-> Len(objs) + 1, ops |-> {Io("start")}]
     ELSE [bots |-> bs, botobjs |-> objs, bot |-> bs[identity], ops |-> {}]

\* remove_bot(entry)
RemoveBot(bs, entry) == Pop(bs, BotIdent(entry))

\* the head of the for loop of _perform_actions on thread t: the tests of
\* the entry, get_bot and the test of bot.ready
DrainCheck(t) ==
  /\ t \in DOMAIN frames
  /\ frames[t].pc = "check"
  /\ LET f == frames[t]
         e == Head(f.todo)
         entry == recs[e]
         skip == [f EXCEPT !.todo = Tail(f.todo)]
         g == GetBot(bots, botobjs, entry, e)
     IN IF f.todo = <<>>
        THEN /\ frames' = Pop(frames, t)
             /\ UNCHANGED <<recs, bots, botobjs, under>>
        ELSE IF entry.ignore
        THEN /\ recs' = [recs EXCEPT ![e].actions = <<>>]
             /\ frames' = [frames EXCEPT ![t] = skip]
             /\ UNCHANGED <<bots, botobjs, under>>
        ELSE IF entry.actions = <<>>
                  \/ (entry.delay # NoDelay /\ entry.delay > f.now)
        THEN /\ frames' = [frames EXCEPT ![t] = skip]
             /\ UNCHANGED <<recs, bots, botobjs, under>>
        ELSE /\ bots' = g.bots
             /\ botobjs' = g.botobjs
             /\ under' = under \cup Within({"bot_lock"}, g.ops)
             /\ frames' = [frames EXCEPT ![t] =
                             IF g.botobjs[g.bot].ready
                             THEN [f EXCEPT !.pc = "pop", !.e = e,
                                            !.bot = g.bot]
                             ELSE skip]
             /\ UNCHANGED recs
  /\ UNCHANGED <<id_map, watchers, now, db, euphoria_users, instant_users,
                 nact, sched, last_sequence, bridge_out, commands, used,
                 received, queries, error, calls>>

\* e['actions'].popleft(), or the break on IndexError
DrainPop(t) ==
  /\ t \in DOMAIN frames
  /\ frames[t].pc = "pop"
  /\ LET f == frames[t]
         actions == recs[f.e].actions
     IN IF actions = <<>>
        THEN /\ frames' = [frames EXCEPT ![t] =
                             [f EXCEPT !.pc = "check",
                                       !.todo = Tail(f.todo)]]
             /\ UNCHANGED recs
        ELSE /\ recs' = [recs EXCEPT ![f.e].actions = Tail(actions)]
             /\ frames' = [frames EXCEPT ![t] =
                             [f EXCEPT !.pc = "act",
                                       !.action = Head(actions)]]
  /\ UNCHANGED <<id_map, watchers, now, db, euphoria_users, instant_users,
                 nact, bots, botobjs, sched, last_sequence, bridge_out,
                 commands, used, received, queries, under, error, calls>>

\* the block of _perform_actions under messages.lock for a text action:
\* [s, fired, next, tr_parent], next being "continue" (translation failed),
\* "break" (parent not resolved) or "submit"
Watched(tr, up, wa) ==
  [s |-> wa.s, fired |-> (tr.fired \o up.fired) \o wa.fired,
   next |-> "break", tr_parent |-> None]

AfterUpdate(tr, up, platform, action, e) ==
  IF action.parent # None /\ tr.ret = None
  THEN Watched(tr, up,
               WatchId(up.s, platform, action.parent, DrainCallback(e)))
  ELSE [s |-> up.s, fired |-> tr.fired \o up.fired, next |-> "submit",
        tr_parent |-> tr.ret]

\* the block without the except clause: the failed translation counts as
\* a parent of None
AfterTranslateUncaught(tr, platform, action, e) ==
  AfterUpdate([tr EXCEPT !.err = "ok"],
              UpdateIds(tr.s, platform, <<<<action.msgid, None>>>>),
              platform, [action EXCEPT !.parent = None], e)

AfterTranslate(tr, platform, action, e) ==
  IF tr.err # "ok"
  THEN [s |-> tr.s, fired |-> tr.fired, next |-> "continue",
        tr_parent |-> None]
  ELSE AfterUpdate(tr, UpdateIds(tr.s, platform, <<<<action.msgid, None>>>>),
                   platform, action, e)

Translate(s, platform, action, e) ==
  AfterTranslate(TranslateId(s, platform, action.parent, TRUE),
                 platform, action, e)

\* the body of the while loop after the pop, up to the call of submit_post:
\* set_nickname, the block under messages.lock, and close with remove_bot
Renamed(bot, e, a) ==
  IF a.kind # "remove" /\ a.nick # bot.nickname
  THEN [bot EXCEPT !.nickname = a.nick,
                   !.out = Append(@, Command("set_nickname", e, a, None,
                                             <<>>))]
  ELSE bot

DrainText(t, f, tr) ==
  /\ SetStore(tr.s)
  /\ sched' = sched \o FiredTasks(tr.fired, now)
  /\ queries' = ApplyFired(queries, tr.fired)
  /\ under' = under \cup Within({"messages.lock"},
                               FiredOps(queries, tr.fired))
  /\ botobjs' = [botobjs EXCEPT ![f.bot] = Renamed(@, f.e, f.action)]
  /\ frames' = [frames EXCEPT ![t] =
       CASE tr.next = "continue" -> [f EXCEPT !.pc = "pop"]
         [] tr.next = "break" ->
              [f EXCEPT !.pc = "check", !.todo = Tail(f.todo)]
         [] OTHER -> [f EXCEPT !.pc = "submit", !.tr_parent = tr.tr_parent]]
  /\ UNCHANGED bots

DrainRemove(t, f) ==
  /\ botobjs' = [botobjs EXCEPT ![f.bot] =
       [@ EXCEPT !.conn = "closed",
                 !.out = Append(@, Command("close", f.e, f.action, None,
                                           <<>>))]]
  /\ bots' = RemoveBot(bots, recs[f.e])
  /\ frames' = [frames EXCEPT ![t] = [f EXCEPT !.pc = "pop"]]
  /\ UNCHANGED <<id_map, watchers, sched, queries, under>>

DrainNick(t, f) ==
  /\ botobjs' = [botobjs EXCEPT ![f.bot] = Renamed(@, f.e, f.action)]
  /\ frames' = [frames EXCEPT ![t] = [f EXCEPT !.pc = "pop"]]
  /\ UNCHANGED <<id_map, watchers, sched, bots, queries, under>>

DrainAct(t) ==
  /\ t \in DOMAIN frames
  /\ frames[t].pc = "act"
  /\ CASE frames[t].action.kind = "text" ->
            DrainText(t, frames[t],
                      Translate(Store, recs[frames[t].e].platform,
                                frames[t].action, frames[t].e))
       [] frames[t].action.kind = "remove" -> DrainRemove(t, frames[t])
       [] OTHER -> DrainNick(t, frames[t])
  /\ UNCHANGED <<now, db, euphoria_users, instant_users, recs, nact,
                 last_sequence, bridge_out, commands, used, received, error,
                 calls>>

\* bot.submit_post(tr_parent, action['text'], e['platform'] + ':' + msgid)
DrainSubmit(t) ==
  /\ t \in DOMAIN frames
  /\ frames[t].pc = "submit"
  /\ LET f == frames[t]
         sequence == Stamp(recs[f.e].platform, f.action.msgid)
     IN /\ botobjs' = [botobjs EXCEPT
             ![f.bot].out = Append(@, Command("submit_post", f.e, f.action,
                                              f.tr_parent, sequence)),
             ![f.bot].posts = Append(@, sequence)]
        /\ frames' = [frames EXCEPT ![t] = [f EXCEPT !.pc = "pop"]]
  /\ UNCHANGED <<id_map, watchers, now, db, euphoria_users, instant_users,
                 recs, nact, bots, sched, last_sequence, bridge_out, commands,
                 used, received, queries, under, error, calls>>

\* ------------------------------------------------------------------------
\* Events on the thread of a surrogate bot
\* ------------------------------------------------------------------------
\* the bot becomes ready: on_ready() runs the runner on the bot's thread
Ready(objs, b) == [objs EXCEPT ![b].ready = TRUE]
ReadyFrames(fs, objs, b, t) ==
  IF objs[b].ready THEN fs ELSE Put(fs, b, Frame(t, <<objs[b].runner>>))

\* InstantSendBot.handle_identity
SurrogateIdentity(b, sid) ==
  /\ b \in 1..Len(botobjs)
  /\ b \notin DOMAIN frames
  /\ botobjs[b].platform = "instant"
  /\ botobjs[b].conn # "closed"
  /\ botobjs[b].session = NoStr
  /\ LET a == IgnoreUsersOp(Users, <<Query("instant", NoStr, sid, NoStr,
                                            None)>>, now, nact)
     IN SetUsers(a.U) /\ nact' = a.n
  /\ botobjs' = [Ready(botobjs, b) EXCEPT ![b].session = sid,
                                          ![b].conn = "open"]
  /\ frames' = ReadyFrames(frames, botobjs, b, now)
  /\ error' = ""
  /\ UNCHANGED <<id_map, watchers, now, db, bots, sched, last_sequence,
                 bridge_out, commands, used, received, queries, under, calls>>

\* EuphoriaSendBot.on_hello_event
SurrogateHello(b, sid) ==
  /\ b \in 1..Len(botobjs)
  /\ b \notin DOMAIN frames
  /\ botobjs[b].platform = "euphoria"
  /\ botobjs[b].conn # "closed"
  /\ botobjs[b].session = NoStr
  /\ LET a == IgnoreUsersOp(Users, <<Query("euphoria", sid, NoStr, NoStr,
                                            None)>>, now, nact)
     IN SetUsers(a.U) /\ nact' = a.n
  /\ botobjs' = [botobjs EXCEPT ![b].session = sid, ![b].conn = "open"]
  /\ error' = ""
  /\ UNCHANGED <<id_map, watchers, now, db, bots, sched, frames,
                 last_sequence, bridge_out, commands, used, received, queries,
                 under, calls>>

\* EuphoriaSendBot.handle_login, the first one
SurrogateLogin(b) ==
  /\ b \in 1..Len(botobjs)
  /\ b \notin DOMAIN frames
  /\ botobjs[b].platform = "euphoria"
  /\ botobjs[b].session # NoStr
  /\ ~botobjs[b].ready
  /\ botobjs' = Ready(botobjs, b)
  /\ frames' = ReadyFrames(frames, botobjs, b, now)
  /\ error' = ""
  /\ UNCHANGED <<id_map, watchers, now, db, euphoria_users, instant_users,
                 recs, nact, bots, sched, last_sequence, bridge_out, commands,
                 used, received, queries, under, calls>>

\* a send bot that adds no mapping for a reply
ReplyDropped(s, platform, sequence, x) == NoCall(s)

\* the mapping a send bot adds for the reply to its post:
\* InstantSendBot.handle_response and EuphoriaSendBot.handle_any
ReplyMapping(s, platform, sequence, x) ==
  IF platform = "instant"
  THEN IF StampStartsWith(sequence, "euphoria")
       THEN AddMappingOp(s, StampPartition2(sequence), x)
       ELSE [s |-> s, ret |-> None, fired |-> <<>>, err |-> "ok"]
  ELSE IF StampStartsWith(sequence, "instant")
       THEN AddMappingOp(s, x, StampPartition2(sequence))
       ELSE [s |-> s, ret |-> None, fired |-> <<>>, err |-> "ok"]

\* the platform answers the oldest post of bot b; x is the id it gave the
\* new message
SurrogateReply(b, x) ==
  /\ b \in 1..Len(botobjs)
  /\ b \notin DOMAIN frames
  /\ botobjs[b].conn = "open"
  /\ botobjs[b].posts # <<>>
  /\ x \notin used
  /\ LET r == ReplyMapping(Store, botobjs[b].platform,
                           Head(botobjs[b].posts), x)
     IN /\ SetStore(r.s)
        /\ sched' = sched \o FiredTasks(r.fired, now)
        /\ queries' = ApplyFired(queries, r.fired)
        /\ under' = under \cup Within({"messages.lock"},
                                     FiredOps(queries, r.fired))
  /\ botobjs' = [botobjs EXCEPT ![b].posts = Tail(@)]
  /\ used' = used \cup {x}
  /\ error' = ""
  /\ UNCHANGED <<received, now, db, euphoria_users, instant_users, recs, nact,
                 bots, frames, last_sequence, bridge_out, commands, calls>>

\* InstantBot.on_close, or the close of a Euphoria bot, not asked for by
\* close(): manager.handle_close() does not reach Nexus.bots
OnClose(b) ==
  /\ b \in 1..Len(botobjs)
  /\ b \notin DOMAIN frames
  /\ botobjs[b].conn = "open"
  /\ botobjs' = [botobjs EXCEPT ![b].conn = "lost", ![b].session = NoStr,
                                ![b].posts = <<>>]
  /\ error' = ""
  /\ calls' = calls + 1
  /\ UNCHANGED <<id_map, watchers, now, db, euphoria_users, instant_users,
                 recs, nact, bots, sched, frames, last_sequence, bridge_out,
                 commands, used, received, queries, under>>

\* ------------------------------------------------------------------------
\* Direct calls of the MessageStore
\* ------------------------------------------------------------------------
StoreCall(r) ==
  /\ SetStore(r.s)
  /\ sched' = sched \o FiredTasks(r.fired, now)
  /\ queries' = ApplyFired(queries, r.fired)
  /\ under' = under \cup Within({"messages.lock"},
                               FiredOps(queries, r.fired))
  /\ error' = IF r.err = "ok" THEN "" ELSE r.err
  /\ UNCHANGED <<now, db, euphoria_users, instant_users, recs, nact, bots,
                 botobjs, frames, last_sequence, bridge_out, commands, used,
                 received, calls>>

StoreTranslateIds(platform, ids, create) ==
  StoreCall(TranslateIds(Store, platform, ids, create))
StoreGenerateId(platform, original) ==
  StoreCall(GenerateId(Store, platform, original))
StoreUpdateIds(platform, mapping) ==
  StoreCall(UpdateIds(Store, platform, mapping))
AddMapping(euphoria, instant) ==
  StoreCall(AddMappingOp(Store, euphoria, instant))
StoreGc == StoreCall(Gc(Store))

\* ------------------------------------------------------------------------
\* Inputs
\* ------------------------------------------------------------------------
\* the Euphoria id with timestamp ts and low bits low
Eid(ts, low) == <<ts * (2 ^ TsShift) + low>>

\* ids the platforms give to messages: the two Euphoria ids share a
\* timestamp, and one Instant id is the first candidate generate_id tries
\* for them
EuphoriaMsgIds == {Eid(1, 0), Eid(1, 1)}
InstantMsgIds == {<<1, TopSeq>>, <<3, 0>>}
MsgIds(platform) ==
  IF platform = "euphoria" THEN EuphoriaMsgIds ELSE InstantMsgIds

\* the ids of a platform a caller can name: those of its messages and, on
\* Instant, an id that generate_id may have made
KnownIds(platform) ==
  IF platform = "euphoria" THEN EuphoriaMsgIds
  ELSE InstantMsgIds \cup {<<1, TopSeq - 1>>}

IdLists(platform) ==
  LET ids == KnownIds(platform) \cup {None}
  IN {<<i>> : i \in ids} \cup {<<i, j>> : i \in ids, j \in ids}

EuphoriaSessions == {"e1"}
InstantSessions == {"i1"}
Sessions(platform) ==
  IF platform = "euphoria" THEN EuphoriaSessions ELSE InstantSessions
Texts == {<<"h", "i">>, HelpCommand}

\* the user dictionary of platform for session sid
UserDict(platform, sid, nick, group) ==
  Query(platform, IF platform = "euphoria" THEN sid ELSE NoStr,
        IF platform = "euphoria" THEN NoStr ELSE sid, nick, group)

\* the dictionary the bridge bots hand to handle_message for a send-event
\* or a post
MessageData(platform, sid, msgid, parent, nick, text) ==
  [platform |-> platform,
   euphoria_id |-> IF platform = "euphoria" THEN sid ELSE NoStr,
   instant_id |-> IF platform = "euphoria" THEN NoStr ELSE sid,
   nick |-> nick, group |-> None, msgid |-> msgid, parent |-> parent,
   text |-> text]

\* the dictionary of remove_users for a part-event or a left message
PartDict(platform, sid) == UserDict(platform, sid, NoStr, None)

\* ------------------------------------------------------------------------
\* SpecStore: every sequence of calls of the MessageStore
\* ------------------------------------------------------------------------
NextStore ==
  \/ \E platform \in Platforms : \E ids \in IdLists(platform) :
       \E create \in BOOLEAN : StoreTranslateIds(platform, ids, create)
  \/ \E platform \in Platforms : \E original \in KnownIds(platform) :
       StoreGenerateId(platform, original)
  \/ \E platform \in Platforms :
       \E k \in KnownIds(platform) \cup {None} :
         \E v \in KnownIds(Other(platform)) \cup {None} :
           StoreUpdateIds(platform, <<<<k, v>>>>)
  \/ \E e \in KnownIds("euphoria") : \E i \in KnownIds("instant") :
       AddMapping(e, i)
  \/ StoreGc

SpecStore == Init /\ [][NextStore]_vars

\* C10: no two rows of id_map share a non-null Euphoria id, and no two
\* rows share a non-null Instant id
IdMapPartialBijection ==
  \A r1 \in id_map : \A r2 \in id_map :
    r1 # r2 => /\ (r1[1] # None => r1[1] # r2[1])
               /\ (r1[2] # None => r1[2] # r2[2])

\* C10 witness: update_ids has replaced rows: the table pairs one Euphoria
\* id with the candidate generate_id made for the other
IdMapReplaced ==
  /\ <<Eid(1, 0), <<1, TopSeq - 2>>>> \in id_map
  /\ <<Eid(1, 1), <<1, TopSeq - 1>>>> \in id_map

\* ------------------------------------------------------------------------
\* Spec: messages, nick changes, parts, the bots' own sessions and lost
\* connections, with the scheduler thread and the bot threads interleaved
\* ------------------------------------------------------------------------
MaxCalls == 2
Bounded == calls < MaxCalls

\* the platforms deliver events in any order; the scheduler thread and the
\* threads of the surrogate bots run in between
Next ==
  \/ \E platform \in Platforms : \E sid \in Sessions(platform) :
       \E msgid \in MsgIds(platform) \ used :
         \E parent \in (MsgIds(platform) \ {msgid}) \cup {None} :
           \E text \in Texts :
             /\ Bounded
             /\ HandleMessage(MessageData(platform, sid, msgid, parent,
                                          "alice", text))
  \/ \E platform \in Platforms : \E sid \in Sessions(platform) :
       Bounded /\ AddUsers(<<UserDict(platform, sid, "bob", None)>>, FALSE)
  \/ \E platform \in Platforms : \E sid \in Sessions(platform) :
       Bounded /\ RemoveUsers(<<PartDict(platform, sid)>>)
  \/ \E platform \in Platforms : \E sid \in Sessions(platform) :
       Bounded /\ IgnoreUsers(<<UserDict(platform, sid, NoStr, None)>>)
  \/ \E b \in 1..Len(botobjs) : Bounded /\ OnClose(b)
  \/ \E k \in 1..Len(sched) : RunDrain(k)
  \/ \E k \in 1..Len(sched) : RunSend(k)
  \/ \E n \in 1..Len(bridge_out) :
       \E x \in MsgIds(bridge_out[n].platform) : BridgeReply(n, x)
  \/ \E k \in 1..Len(sched) : RunCb(k)
  \/ \E t \in DOMAIN frames : DrainCheck(t)
  \/ \E t \in DOMAIN frames : DrainPop(t)
  \/ \E t \in DOMAIN frames : DrainAct(t)
  \/ \E t \in DOMAIN frames : DrainSubmit(t)
  \/ \E b \in 1..Len(botobjs) :
       \E sid \in Sessions(botobjs[b].platform) : SurrogateIdentity(b, sid)
  \/ \E b \in 1..Len(botobjs) :
       \E sid \in Sessions(botobjs[b].platform) : SurrogateHello(b, sid)
  \/ \E b \in 1..Len(botobjs) : SurrogateLogin(b)
  \/ \E b \in 1..Len(botobjs) :
       \E x \in MsgIds(botobjs[b].platform) : SurrogateReply(b, x)

Spec == Init /\ [][Next]_vars


\* ------------------------------------------------------------------------
\* SpecPresence: sessions join and leave, servers drop out, time passes
\* ------------------------------------------------------------------------
MaxTime == 2
Groups == {<<1>>}

\* the user dictionary of a join: EuphoriaBridgeBot.handle_any hands over
\* the name and the group of the session, InstantBridgeBot.handle_joined
\* the session id only
JoinDict(platform, sid, group) ==
  IF platform = "euphoria" THEN UserDict("euphoria", sid, "bob", group)
  ELSE Query("instant", NoStr, sid, NoStr, None)

\* the user record the maps hold for session sid, 0 if none
Entry(platform, sid) ==
  IF platform = "euphoria"
  THEN (IF sid \in DOMAIN euphoria_users THEN euphoria_users[sid] ELSE 0)
  ELSE (IF sid \in DOMAIN instant_users THEN instant_users[sid] ELSE 0)

\* session sid is present and its surrogate delay has not expired
InTime(platform, sid) ==
  /\ Entry(platform, sid) # 0
  /\ recs[Entry(platform, sid)].delay > now

\* a session leaves only while its surrogate delay is running
NextPresence ==
  \/ \E platform \in Platforms : \E sid \in Sessions(platform) :
       \E group \in Groups :
         Bounded /\ AddUsers(<<JoinDict(platform, sid, group)>>, TRUE)
  \/ \E platform \in Platforms : \E sid \in Sessions(platform) :
       /\ Bounded
       /\ InTime(platform, sid)
       /\ RemoveUsers(<<PartDict(platform, sid)>>)
  \/ \E group \in Groups : Bounded /\ RemoveGroup(group)
  \/ now < MaxTime /\ Tick
  \/ \E k \in 1..Len(sched) : RunDrain(k)
  \/ \E t \in DOMAIN frames : DrainCheck(t)
  \/ \E t \in DOMAIN frames : DrainPop(t)
  \/ \E t \in DOMAIN frames : DrainAct(t)
  \/ \E b \in 1..Len(botobjs) :
       \E sid \in Sessions(botobjs[b].platform) : SurrogateIdentity(b, sid)
  \/ \E b \in 1..Len(botobjs) :
       \E sid \in Sessions(botobjs[b].platform) : SurrogateHello(b, sid)
  \/ \E b \in 1..Len(botobjs) : SurrogateLogin(b)

SpecPresence == Init /\ [][NextPresence]_vars

\* entry e is in one of the user maps
InMaps(e) ==
  \/ \E sid \in DOMAIN euphoria_users : euphoria_users[sid] = e
  \/ \E sid \in DOMAIN instant_users : instant_users[sid] = e

\* entry e joined and was removed, and nothing else was queued for it
GhostJoin(e) ==
  /\ ~InMaps(e)
  /\ recs[e].delay # NoDelay
  /\ Len(recs[e].actions) \in {1, 2}
  /\ recs[e].actions[Len(recs[e].actions)].kind = "remove"
  /\ recs[e].actions[1].kind \in {"user", "remove"}

\* C6: ghost join: for a session that joined and left again before its
\* surrogate delay expired, with no other event, make_bot is never called
NoGhostSurrogate ==
  \A e \in 1..Len(recs) :
    GhostJoin(e) => \A b \in 1..Len(botobjs) : botobjs[b].runner # e

\* C8: partition cleanup: remove_group completes normally
RemoveGroupCompletes == error # "AttributeError"

\* ------------------------------------------------------------------------
\* Properties of the message flow
\* ------------------------------------------------------------------------
\* the commands issued so far on bot b, oldest first
Out(b) == botobjs[b].out

\* C1: per-user FIFO: on every surrogate, of two commands issued for
\* actions of the same user record, the one issued earlier never belongs to
\* the action that was appended to the queue later
PerUserFifo ==
  \A b \in 1..Len(botobjs) : \A i, j \in 1..Len(Out(b)) :
    (i < j /\ Out(b)[i].e = Out(b)[j].e) => Out(b)[i].n <= Out(b)[j].n

\* the stamps of the posts submitted so far on the surrogates
SubmittedStamps ==
  UNION {{Out(b)[i].sequence :
            i \in {i \in 1..Len(Out(b)) : Out(b)[i].cmd = "submit_post"}} :
         b \in 1..Len(botobjs)}

\* the session of a user record on its platform
SessionOf(entry) ==
  IF entry.platform = "euphoria" THEN entry.euphoria_id ELSE entry.instant_id

\* C2: loop suppression: a message that handle_message received from a
\* sender registered as ignored, with no drain at work on the sender's
\* queue, is never submitted on a surrogate and dispatches no command
LoopSuppressed ==
  \A r \in received :
    (r.ignore /\ ~r.busy) =>
       /\ r.sequence \notin SubmittedStamps
       /\ <<r.sequence[1], r.sequence[3]>> \notin commands

\* a surrogate's own session sent a message, and the drains that followed
\* have finished
LoopMessageDropped ==
  /\ \E r \in received : \E b \in 1..Len(botobjs) :
       /\ r.ignore /\ ~r.busy
       /\ botobjs[b].ready
       /\ botobjs[b].platform = r.sequence[1]
       /\ botobjs[b].session = SessionOf(recs[r.e])
       /\ recs[r.e].actions = <<>>
  /\ sched = <<>>
  /\ frames = Empty

\* the row that pairs the id orig of platform with the id x of the other
Row(platform, orig, x) ==
  IF platform = "euphoria" THEN <<orig, x>> ELSE <<x, orig>>

\* m holds the row pairing orig with x, and no other row with either id
Correlated(sequence, x, m) ==
  /\ Row(sequence[1], sequence[3], x) \in m
  /\ {r \in m : \/ r[1] = Row(sequence[1], sequence[3], x)[1]
                \/ r[2] = Row(sequence[1], sequence[3], x)[2]}
       = {Row(sequence[1], sequence[3], x)}

\* C3: message-id correlation: a drain stamps the post of a text action of
\* origin platform P and message id m with P:m, and when the surrogate has
\* handled the reply that carries this stamp and the new id x, the id_map
\* holds exactly one row with m or x, the row pairing m with x
AckCorrelated ==
  [][/\ \A t \in DOMAIN frames :
          (frames[t].pc = "submit" /\ t \in DOMAIN frames'
             /\ frames'[t].pc = "pop")
          => LET b == frames[t].bot
             IN botobjs'[b].posts =
                  Append(botobjs[b].posts,
                         <<recs[frames[t].e].platform, ":",
                           frames[t].action.msgid>>)
     /\ \A b \in 1..Len(botobjs) :
          (/\ botobjs[b].posts # <<>>
           /\ botobjs'[b].posts = Tail(botobjs[b].posts)
           /\ used' # used)
          => \E x \in used' \ used :
               Correlated(Head(botobjs[b].posts), x, id_map')]_vars

\* a surrogate has submitted a post and handled its reply, and the id_map
\* pairs the origin id of the post with another id
AckHandled ==
  \E b \in 1..Len(botobjs) : \E i \in 1..Len(Out(b)) :
    /\ Out(b)[i].cmd = "submit_post"
    /\ botobjs[b].posts = <<>>
    /\ botobjs[b].conn = "open"
    /\ \E x \in used :
         Correlated(Out(b)[i].sequence, x, id_map)

\* the parent q a post is submitted with is the counterpart of its origin
\* parent p in m
ParentPaired(platform, p, q, m) ==
  IF p = None THEN q = None
  ELSE q # None /\ Row(platform, p, q) \in m

\* C4: threaded reply: when a surrogate submits the post of a text action
\* with origin parent p, the parent of the post is the id the id_map pairs
\* with p and is not null; it is null when p is null
ThreadedReply ==
  [][\A t \in DOMAIN frames :
       (frames[t].pc = "submit" /\ t \in DOMAIN frames'
          /\ frames'[t].pc = "pop")
       => ParentPaired(recs[frames[t].e].platform, frames[t].action.parent,
                       frames[t].tr_parent, id_map)]_vars

\* the text actions waiting in the queue of entry e with origin parent p
Waiting(e, p) ==
  {i \in 1..Len(recs[e].actions) :
     recs[e].actions[i].kind = "text" /\ recs[e].actions[i].parent = p}

\* C5: deferred parent: while a drain of entry e has a watcher registered
\* for the unresolved parent p, the action it suspended for is not lost: a
\* text action with parent p waits in the queue of e
DeferredKept ==
  \A key \in DOMAIN watchers : \A i \in 1..Len(watchers[key]) :
    watchers[key][i].kind = "drain" =>
      Waiting(watchers[key][i].entry, key[2]) # {}

\* C7: no surrogate for an ignored user: the bot map holds no entry under
\* the identity of a user record with ignore = true
IgnoredHasNoBot ==
  \A e \in 1..Len(recs) :
    recs[e].ignore => BotIdent(recs[e]) \notin DOMAIN bots

\* C9: disconnect handling: a surrogate whose connection was lost is not
\* in the bot map any more
LostBotLeavesPool ==
  \A b \in 1..Len(botobjs) :
    botobjs[b].conn = "lost" => \A ident \in DOMAIN bots : bots[ident] # b

\* ------------------------------------------------------------------------
\* SpecSynth: messages of Euphoria that share one timestamp are translated
\* one after the other (the ids Eid(SynthTs, 0), Eid(SynthTs, 1), ...),
\* while replies from Instant may carry ids that are candidates of
\* generate_id for that timestamp
\* ------------------------------------------------------------------------
SynthTs == 1
ReplySeqs == {TopSeq - 1}

\* translate_ids('euphoria', (a,)) for the next message a of the timestamp
Synthesise ==
  /\ error = ""
  /\ \E r \in {TranslateIds(Store, "euphoria", <<Eid(SynthTs, calls)>>, TRUE)} :
       /\ SetStore(r.s)
       /\ sched' = sched \o FiredTasks(r.fired, now)
       /\ queries' = ApplyFired(queries, r.fired)
       /\ under' = under \cup Within({"messages.lock"},
                                    FiredOps(queries, r.fired))
       /\ error' = IF r.err = "ok" THEN "" ELSE r.err
  /\ calls' = calls + 1
  /\ UNCHANGED <<now, db, euphoria_users, instant_users, recs, nact, bots,
                 botobjs, frames, last_sequence, bridge_out, commands, used,
                 received>>

NextSynth ==
  \/ Synthesise
  \/ \E seq \in ReplySeqs :
       /\ error = ""
       /\ AddMapping(Eid(SynthTs + 1, seq), <<SynthTs, seq>>)

SpecSynth == Init /\ [][NextSynth]_vars

\* the sequence numbers whose candidate for timestamp ts is in no row of m
FreeOf(taken, ts) ==
  {seq \in 0..TopSeq : timestamp_to_instant_id(ts, seq) \notin taken}
Free(m, ts) == FreeOf({r[2] : r \in m}, ts)

\* the rows generate_id has made for the messages of the timestamp
Synthesised ==
  {r \in id_map : r[1] # None /\ r[1][1] < Eid(SynthTs + 1, 0)[1]}

\* C15: id synthesis: generate_id for a Euphoria id a without a row and
\* with timestamp T inserts the row (a, (T << 10) + seq) for the largest seq
\* of 0..1023 whose candidate is in no row, and raises RuntimeError, leaving
\* the table alone, exactly when all 1024 candidates of T are in the table;
\* so the first call to fail comes after 1024 calls that succeeded, less
\* one for every candidate a reply from Instant holds
SynthesisTakesLargestFree ==
  /\ \E g \in {GenerateId(Store, "euphoria", Eid(SynthTs, calls))} :
       \E free \in {Free(id_map, SynthTs)} :
         IF free = {}
         THEN g.err = "RuntimeError" /\ g.s.m = id_map
         ELSE /\ g.err = "ok"
              /\ g.ret[1] = SynthTs
              /\ g.ret[2] \in free
              /\ \A seq \in free : seq <= g.ret[2]
              /\ g.s.m = id_map \cup {<<Eid(SynthTs, calls), g.ret>>}
  /\ error = "RuntimeError"
       => /\ Free(id_map, SynthTs) = {}
          /\ calls - 1 >= TopSeq + 1 - Cardinality(id_map \ Synthesised)

\* C15 witness: 1024 distinct Euphoria ids of one timestamp have their
\* synthesised rows, and the call for the next one has failed
SynthesisExhausted ==
  /\ Cardinality(Synthesised) = TopSeq + 1
  /\ \A k \in 0..TopSeq :
       <<Eid(SynthTs, k), <<SynthTs, TopSeq - k>>>> \in id_map
  /\ error = "RuntimeError"

\* the rows of m with both sides filled
Complete(m) == {r \in m : r[1] # None /\ r[2] # None}

\* C11: rows are permanent: a row of id_map with both sides non-null is a
\* row of id_map in every later state, whatever translate_ids, update_ids
\* (the drain's update_ids(origin, {msgid: None}) included), add_mapping or
\* gc runs in between
RowsPermanent == [][Complete(id_map) \subseteq id_map']_vars

\* the result of translate_id(Other(platform), r.ret, create=False) in the
\* store a call r of translate_id(platform, ...) left
Back(platform, r) == TranslateId(r.s, Other(platform), r.ret, FALSE)

\* C12 as stated: whatever translate_id('euphoria', a, create=True) returns,
\* translate_id('instant', ., create=False) maps it back to a
RoundTrip ==
  \A a \in KnownIds("euphoria") :
    \E r \in {TranslateId(Store, "euphoria", a, TRUE)} :
      r.err = "ok" => Back("euphoria", r).ret = a

\* C12: round trip: when translate_id('euphoria', a, create=True) returns an
\* id b (not None, which it returns while the row of a is still (a, NULL)),
\* translate_id('instant', b, create=False) returns a
RoundTripOfId ==
  \A a \in KnownIds("euphoria") :
    \E r \in {TranslateId(Store, "euphoria", a, TRUE)} :
      (r.err = "ok" /\ r.ret # None) => Back("euphoria", r).ret = a

\* C12 witness: the first candidate of generate_id is taken by another row,
\* an id a without a row gets the next candidate, and that maps back to a
RoundTripSynthesised ==
  \E a \in KnownIds("euphoria") :
    \E r \in {TranslateId(Store, "euphoria", a, TRUE)} :
      /\ SelectByEuphoria(id_map, a) = {}
      /\ SelectByInstant(id_map, <<1, TopSeq>>) # {}
      /\ r.ret = <<1, TopSeq - 1>>
      /\ Back("euphoria", r).ret = a

\* the second of two consecutive calls translate_id(platform, id, True)
Again(platform, id, r) == TranslateId(r.s, platform, id, TRUE)

\* C13: translate_id(platform, id, create=True) is idempotent: a second
\* call with the same arguments returns what the first returned (or raises
\* what it raised) and leaves the id_map as the first call left it
TranslateIdempotent ==
  \A platform \in Platforms : \A id \in KnownIds(platform) \cup {None} :
    \E r \in {TranslateId(Store, platform, id, TRUE)} :
      \E q \in {Again(platform, id, r)} :
        q.err = r.err /\ q.ret = r.ret /\ q.s.m = r.s.m

\* C13 witness: the first call synthesises a row next to the rows the table
\* has, and the second call returns the synthesised id
TranslateTwice ==
  \E a \in KnownIds("euphoria") :
    \E r \in {TranslateId(Store, "euphoria", a, TRUE)} :
      /\ id_map # {}
      /\ r.s.m # id_map
      /\ r.ret \notin {None, Ellipsis}
      /\ Again("euphoria", a, r).ret = r.ret

\* C14 as stated: gc() deletes exactly the rows with both sides null and
\* returns their number; partial rows (a, NULL) and (NULL, b) stay
GcDropsOnlyEmptyRows ==
  \E r \in {Gc(Store)} :
    /\ r.s.m = id_map \ {<<None, None>>}
    /\ r.ret = Cardinality(id_map \cap {<<None, None>>})

\* C14: gc() deletes exactly the rows with a null side, partial rows
\* included, and returns their number; every complete row stays
GcDropsIncompleteRows ==
  \E r \in {Gc(Store)} :
    /\ r.s.m = Complete(id_map)
    /\ r.ret = Cardinality(id_map \ Complete(id_map))

\* C14 witness: the table gc() runs on has a complete row, a row
\* (a, NULL) and a row (NULL, b)
GcOnMixedTable ==
  /\ Complete(id_map) # {}
  /\ \E r \in id_map : r[1] # None /\ r[2] = None
  /\ \E r \in id_map : r[1] = None /\ r[2] # None
  /\ Gc(Store).ret = 2

\* ------------------------------------------------------------------------
\* SpecWatch: send_bridge_message registers watchers with watch_id while
\* translate_ids, update_ids and gc change the table; the k-th call passes
\* the text WatchTexts[k], which tells its callback from the others, and
\* sched collects the do_send callables the invoked callbacks have made
\* ------------------------------------------------------------------------
MaxWatch == 2
WatchTexts == <<<<"a">>, <<"b">>, <<"c">>, <<"d">>>>

\* send_bridge_message(platform, parent, WatchTexts[calls + 1])
WatchParent(platform, parent) ==
  /\ calls < MaxWatch
  /\ \E r \in {SendBridgeMessage(Store, platform, parent,
                                 WatchTexts[calls + 1])} :
       /\ SetStore(r.s)
       /\ sched' = sched \o FiredTasks(r.fired, now)
       /\ queries' = ApplyFired(queries, r.fired)
       /\ under' = under \cup Within(WatchLocks(parent),
                                    FiredOps(queries, r.fired))
  /\ error' = ""
  /\ calls' = calls + 1
  /\ UNCHANGED <<now, db, euphoria_users, instant_users, recs, nact, bots,
                 botobjs, frames, last_sequence, bridge_out, commands, used,
                 received>>

NextWatch ==
  \/ \E platform \in Platforms : \E parent \in KnownIds(platform) \cup {None} :
       WatchParent(platform, parent)
  \/ \E platform \in Platforms : \E id \in KnownIds(platform) :
       StoreTranslateIds(platform, <<id>>, TRUE)
  \/ \E platform \in Platforms :
       \E k \in KnownIds(platform) :
         \E v \in KnownIds(Other(platform)) \cup {None} :
           StoreUpdateIds(platform, <<<<k, v>>>>)
  \/ StoreGc

SpecWatch == Init /\ [][NextWatch]_vars

\* the counterparts the table m has for the id of platform
Counterparts(m, platform, id) ==
  IF platform = "euphoria" THEN {r[2] : r \in SelectByEuphoria(m, id)} \ {None}
  ELSE {r[1] : r \in SelectByInstant(m, id)} \ {None}

\* where the callback of the call with this text is registered, and the
\* callables its invocations have made
PendingAt(text) ==
  {ki \in UNION {{<<key, i>> : i \in 1..Len(watchers[key])} :
                   key \in DOMAIN watchers} :
     watchers[ki[1]][ki[2]].text = text}
Invoked(text) == {i \in 1..Len(sched) : sched[i].text = text}

\* every callback handed to watch_id is either registered under the id it
\* waits for, whose counterpart is unknown, or has been invoked once
WatchedOrInvoked ==
  /\ \A k \in 1..calls :
       Cardinality(PendingAt(WatchTexts[k]))
         + Cardinality(Invoked(WatchTexts[k])) = 1
  /\ \A key \in DOMAIN watchers : \A i \in 1..Len(watchers[key]) :
       /\ key = <<watchers[key][i].platform, watchers[key][i].parent>>
       /\ Counterparts(id_map, key[1], key[2]) = {}

\* C16: watch_id(platform, id, cb) with the counterpart of id in the table
\* invokes cb with it at once and registers nothing; otherwise cb is
\* registered, stays registered exactly while the counterpart is unknown,
\* and is invoked once, with the counterpart, by the update_ids or
\* generate_id that completes the row of id, and never again
WatchFiresOnce ==
  [][/\ WatchedOrInvoked'
     /\ Len(sched') >= Len(sched)
     /\ \A i \in (Len(sched) + 1)..Len(sched') :
          \/ <<sched'[i].euphoria_parent, sched'[i].instant_parent>>
               \in Complete(id_map')
          \/ /\ sched'[i].euphoria_parent = None
             /\ sched'[i].instant_parent = None
             /\ calls' = calls + 1]_vars

\* C16 witness: the callback of the first call was registered, the second
\* call found its counterpart in the table and invoked its callback at
\* once, and a later write completed the row the first callback waited for
WatchedThenFired ==
  /\ Len(sched) = 2
  /\ sched[1].text = WatchTexts[2]
  /\ sched[2].text = WatchTexts[1]
  /\ sched[2].euphoria_parent # None
  /\ watchers = Empty

\* ------------------------------------------------------------------------
\* SpecLogs: clients of Instant request logs while messages of Euphoria are
\* relayed: the drain records a message with update_ids('euphoria',
\* {msgid: None}) and the reply of Instant completes the row by add_mapping
\* ------------------------------------------------------------------------
MaxLogs == 2

\* request_messages(platform, before, after, maxlen, callback), called by
\* the Instant bridge bot for a log-request
RequestMessages(platform, before, after, maxlen) ==
  /\ IF platform # "instant"
     THEN error' = "RuntimeError"
          /\ UNCHANGED <<id_map, watchers, sched, queries, under>>
     ELSE \E r \in {WatchId(Store, platform, before,
                            BeforeTranslated(Len(queries) + 1, before))} :
            /\ SetStore(r.s)
            /\ sched' = sched \o FiredTasks(r.fired, now)
            /\ queries' = ApplyFired(Append(queries,
                                            NewQuery(before, after, maxlen)),
                                     r.fired)
            /\ under' = under \cup Within(WatchLocks(before),
                                         FiredOps(queries, r.fired))
            /\ error' = ""
  /\ calls' = calls + 1
  /\ UNCHANGED <<now, db, euphoria_users, instant_users, recs, nact, bots,
                 botobjs, frames, last_sequence, bridge_out, commands, used,
                 received>>

\* the digits of base_encode, most significant first
Alphabet ==
  <<"0", "1", "2", "3", "4", "5", "6", "7", "8", "9", "a", "b", "c", "d",
    "e", "f", "g", "h", "i", "j", "k", "l", "m", "n", "o", "p", "q", "r",
    "s", "t", "u", "v", "w", "x", "y", "z">>

\* the loop of base_encode followed by reversed(), for number >= 0 (the
\* loop does not end for a negative number)
RECURSIVE Digits36(_, _)
Digits36(number, base) ==
  IF number \div base = 0 THEN <<Alphabet[(number % base) + 1]>>
  ELSE Append(Digits36(number \div base, base),
              Alphabet[(number % base) + 1])

\* ('0',) * n: the empty tuple for n <= 0
Zeros(n) == [k \in 1..n |-> "0"]

\* base_encode(number, base, pad): ret.extend(('0',) * (len(ret) - pad))
\* is made when pad > len(ret)
base_encode(number, base, pad) ==
  IF pad > Len(Digits36(number, base))
  THEN Zeros(Len(Digits36(number, base)) - pad) \o Digits36(number, base)
  ELSE Digits36(number, base)

\* int(text, 36)
RECURSIVE int36(_)
int36(text) ==
  IF text = <<>> THEN 0
  ELSE 36 * int36(SubSeq(text, 1, Len(text) - 1))
         + (CHOOSE d \in 0..35 : Alphabet[d + 1] = text[Len(text)])

\* the before that query_logs puts into the log packet; the id <<n>> of
\* the model stands for the 13 digits of n
LogsBefore(before) ==
  IF before = None THEN None ELSE base_encode(before[1] - 1, 36, 13)

\* the scheduler thread runs run_query(translated): query_logs sends the
\* log packet with before = base_encode(int(before, 36) - 1, 36, 13)
RunQuery(k) ==
  /\ 0 \notin DOMAIN frames
  /\ k \in 1..Len(sched)
  /\ sched[k].kind = "run_query"
  /\ sched[k].due <= now
  /\ sched' = Remove(sched, k)
  /\ queries' = [queries EXCEPT ![sched[k].entries[1]] =
       [@ EXCEPT !.stage = "asked",
                 !.translated = sched[k].euphoria_parent,
                 !.sent = LogsBefore(sched[k].euphoria_parent),
                 !.bound = IF sched[k].euphoria_parent = None THEN None
                           ELSE <<int36(LogsBefore(
                                          sched[k].euphoria_parent))>>]]
  /\ UNCHANGED <<id_map, watchers, now, db, euphoria_users, instant_users,
                 recs, nact, bots, botobjs, frames, last_sequence, bridge_out,
                 commands, used, received, under, error, calls>>

\* Euphoria answers the log packet of request g: process_logs(logs)
LogReply(g, logs) ==
  /\ g \in 1..Len(queries)
  /\ queries[g].stage = "asked"
  /\ Len(logs) <= queries[g].maxlen
  /\ \A n \in 1..Len(logs) :
       IF queries[g].bound = None THEN TRUE
       ELSE logs[n].id[1] < queries[g].bound[1]
  /\ \E ids \in Orders(LogIds(logs)) :
     \E r \in {WatchIds(Store, "euphoria", ids, TRUE, g)} :
       /\ SetStore(r.s)
       /\ sched' = sched \o FiredTasks(r.fired, now)
       /\ queries' = [ApplyFired(queries, r.fired) EXCEPT
                        ![g] = AfterWatchIds(@, logs, r)]
       /\ under' = under \cup Within({"messages.lock"},
                      FiredOps(queries, r.fired)
                        \cup IF r.err = "ok" /\ r.pending = {}
                             THEN {Io("send_unicast")} ELSE {})
       /\ error' = IF r.err = "ok" THEN "" ELSE r.err
  /\ UNCHANGED <<now, db, euphoria_users, instant_users, recs, nact, bots,
                 botobjs, frames, last_sequence, bridge_out, commands, used,
                 received, calls>>

\* the batches Euphoria returns, oldest message first
Batches ==
  {<<>>, <<LogMsg(Eid(1, 0), None)>>, <<LogMsg(Eid(1, 1), Eid(1, 0))>>,
   <<LogMsg(Eid(1, 0), None), LogMsg(Eid(1, 1), Eid(1, 0))>>}

\* the bounds a client of Instant asks for
LogBounds == {None, <<1, TopSeq>>, <<3, 0>>}

NextLogs ==
  \/ \E before \in {None, <<3, 0>>} : \E after \in LogBounds :
       \E maxlen \in {NoLen, 1} :
         /\ calls < MaxLogs
         /\ RequestMessages("instant", before, after, maxlen)
  \/ \E k \in 1..Len(sched) : RunQuery(k)
  \/ \E g \in 1..Len(queries) : \E logs \in Batches : LogReply(g, logs)
  \/ \E msgid \in EuphoriaMsgIds :
       StoreUpdateIds("euphoria", <<<<msgid, None>>>>)
  \/ \E msgid \in EuphoriaMsgIds : \E x \in InstantMsgIds :
       AddMapping(msgid, x)

SpecLogs == Init /\ [][NextLogs]_vars

\* the callback of watch_ids is called with mapping in this step for the
\* log request g
CalledBack(g) ==
  /\ Len(queries'[g].mappings) > 0
  /\ g <= Len(queries) => Len(queries'[g].mappings) > Len(queries[g].mappings)

\* C17: watch_ids calls its callback at most once, and when it does, the
\* mapping it passes pairs every id of ids with the counterpart the id_map
\* has for it in that moment, which is not null (None only for the id None)
WatchIdsMapping ==
  [][\A g \in 1..Len(queries') :
       /\ Len(queries'[g].mappings) <= 1
       /\ CalledBack(g) =>
            \A id \in DOMAIN queries'[g].mappings[1] :
              IF id = None THEN queries'[g].mappings[1][id] = None
              ELSE <<id, queries'[g].mappings[1][id]>> \in Complete(id_map')]_vars

\* the messages of the batch of log request q whose translated id is not
\* less than after, in the batch's order
NotBefore(q) ==
  SelectSeq(q.logs, LAMBDA msg : ~IdLess(q.mappings[1][msg.id], q.after))

\* C20: for a log request with an after that is not None, the list passed
\* to the callback holds, in the order of the batch, exactly the messages of
\* the batch whose translated id is not less than after, each under its
\* translated id
LogLowerBound ==
  \A g \in 1..Len(queries) :
    (queries[g].after # None /\ queries[g].delivered # <<>>) =>
      /\ Len(queries[g].delivered[1]) = Len(NotBefore(queries[g]))
      /\ \A n \in 1..Len(queries[g].delivered[1]) :
           /\ ~IdLess(queries[g].delivered[1][n].id, queries[g].after)
           /\ queries[g].delivered[1][n].id =
                queries[g].mappings[1][NotBefore(queries[g])[n].id]

\* a batch of two messages was delivered with the first message cut out
\* and the second one kept
LogBatchCut ==
  \E g \in 1..Len(queries) :
    /\ queries[g].after # None
    /\ Len(queries[g].logs) = 2
    /\ queries[g].delivered # <<>>
    /\ Len(queries[g].delivered[1]) = 1
    /\ queries[g].delivered[1][1].id = queries[g].mappings[1][queries[g].logs[2].id]

\* the place of a lock in the order nexus.lock, messages.lock, bot_lock
LockRank(lock) ==
  CASE lock = "nexus.lock" -> 1
    [] lock = "messages.lock" -> 2
    [] lock = "bot_lock" -> 3

\* C18: a thread that holds a lock only acquires locks that come later in
\* the order nexus.lock, messages.lock, bot_lock, and of no two locks was
\* each acquired while the other was held, so no two threads can wait on
\* each other's lock
LockOrder ==
  /\ \A e \in under :
       e[2] = "acquire" => LockRank(e[1]) < LockRank(e[3])
  /\ \A e \in under : \A f \in under :
       ~(e[2] = "acquire" /\ f[2] = "acquire" /\ e[1] = f[3] /\ e[3] = f[1])

\* handle_message has called watch_id for a command while it held
\* nexus.lock, a drain has taken bot_lock in get_bot, and a watcher was
\* called while the store's lock was held
LocksNested ==
  /\ <<"nexus.lock", "acquire", "messages.lock">> \in under
  /\ <<"bot_lock", "io", "start">> \in under
  /\ \E k \in 1..Len(sched) : sched[k].kind = "do_send"

\* C19: no call on a platform client is made by a thread that holds
\* nexus.lock, messages.lock or bot_lock
NoIoUnderLock == \A e \in under : e[2] # "io"

\* ------------------------------------------------------------------------
\* SpecEnv: the process is started with a value of BRIDGE_DB_SYNC, a string
\* of at most MaxEnvLen characters, and calls MessageStore.init
\* ------------------------------------------------------------------------
MaxEnvLen == 3

Letters ==
  {"A", "B", "C", "D", "E", "F", "G", "H", "I", "J", "K", "L", "M", "N", "O",
   "P", "Q", "R", "S", "T", "U", "V", "W", "X", "Y", "Z", "a", "b", "c", "d",
   "e", "f", "g", "h", "i", "j", "k", "l", "m", "n", "o", "p", "q", "r", "s",
   "t", "u", "v", "w", "x", "y", "z"}
Digits == {"0", "1", "2", "3", "4", "5", "6", "7", "8", "9"}

\* the characters the class [A-Za-z09-9] accepts: the ranges A-Z and a-z,
\* the character 0 and the range 9-9
SyncClass == Letters \cup {"0"} \cup {"9"}

\* re.match('^[A-Za-z09-9]+$', sync): "$" matches at the end of the string
\* and before a newline that ends it
SyncMatches(sync) ==
  \E n \in {Len(sync), Len(sync) - 1} :
    /\ n >= 1
    /\ \A k \in 1..n : sync[k] \in SyncClass
    /\ n < Len(sync) => sync[Len(sync)] = "\n"

\* MessageStore.init(): connect, the pragma, CREATE TABLE IF NOT EXISTS
StoreInit ==
  /\ ~db.open
  /\ db' = [db EXCEPT !.open = TRUE,
                      !.executed = IF SyncMatches(db.sync) THEN <<db.sync>>
                                   ELSE <<>>]
  /\ error' = ""
  /\ UNCHANGED <<id_map, watchers, now, euphoria_users, instant_users, recs,
                 nact, bots, botobjs, sched, frames, last_sequence,
                 bridge_out, commands, used, received, queries, under, calls>>

EnvChars == {"F", "u", "0", "1", "9", "-", "\n"}
EnvValues == UNION {[1..n -> EnvChars] : n \in 0..MaxEnvLen}

InitEnv ==
  /\ Constructed
  /\ db \in {[sync |-> v, open |-> FALSE, executed |-> <<>>] : v \in EnvValues}

NextEnv == StoreInit

SpecEnv == InitEnv /\ [][NextEnv]_vars

\* C21: once init has run, PRAGMA synchronous was executed, with the value
\* of BRIDGE_DB_SYNC, exactly if that value is a non-empty string of ASCII
\* letters and digits 0-9, and was not executed at all otherwise
SyncApplied ==
  db.open =>
    IF db.sync # <<>> /\ \A k \in 1..Len(db.sync) :
                           db.sync[k] \in Letters \cup Digits
    THEN db.executed = <<db.sync>>
    ELSE db.executed = <<>>

\* the records the two user maps lead to
Indexed ==
  {euphoria_users[k] : k \in DOMAIN euphoria_users}
    \cup {instant_users[k] : k \in DOMAIN instant_users}

\* C22: every record in a user map carries at least one of the two ids,
\* each map files a record under the id of that platform the record
\* carries, and a record that carries both ids is filed in both maps
UserIndex ==
  /\ \A e \in Indexed :
       /\ e \in 1..Len(recs)
       /\ recs[e].euphoria_id # NoStr \/ recs[e].instant_id # NoStr
       /\ (recs[e].euphoria_id # NoStr /\ recs[e].instant_id # NoStr) =>
            /\ recs[e].euphoria_id \in DOMAIN euphoria_users
            /\ recs[e].instant_id \in DOMAIN instant_users
            /\ euphoria_users[recs[e].euphoria_id] = e
            /\ instant_users[recs[e].instant_id] = e
  /\ \A k \in DOMAIN euphoria_users :
       recs[euphoria_users[k]].euphoria_id = k
  /\ \A k \in DOMAIN instant_users : recs[instant_users[k]].instant_id = k

\* a map holds a record while the record of a user who left is no longer
\* in the maps
UsersFiled == Indexed # {} /\ Cardinality(Indexed) < Len(recs)

\* the posts a bridge bot was handed are one per platform for every
\* do_send, with the same text
OncePerPlatform(posts) ==
  /\ Len(posts) % 2 = 0
  /\ \A n \in 1..Len(posts) :
       n % 2 = 1 =>
         /\ posts[n].platform = "euphoria"
         /\ posts[n + 1].platform = "instant"
         /\ posts[n].text = posts[n + 1].text

\* the parents of the posts from n on are both None or the two ids of one
\* row of the mapping m
ParentsPaired(posts, n, m) ==
  \A k \in n..Len(posts) :
    k % 2 = 1 =>
      \/ posts[k].parent = None /\ posts[k + 1].parent = None
      \/ <<posts[k].parent, posts[k + 1].parent>> \in m

\* the callbacks of a do_send have called add_mapping at most once, and
\* once when both acknowledgements have been handled
MappedOnce(posts) ==
  \A n \in 1..Len(posts) :
    n % 2 = 1 =>
      /\ posts[n].mapped + posts[n + 1].mapped <= 1
      /\ (posts[n].id # Ellipsis /\ posts[n + 1].id # Ellipsis) =>
           posts[n].mapped + posts[n + 1].mapped = 1

\* C23: send_bridge_message submits the same text once on each platform,
\* the post of Euphoria under the Euphoria id and the post of Instant under
\* the Instant id of one parent message (or both at top level), and when
\* both posts have been acknowledged it calls add_mapping once, with the
\* pair of the two new ids
BridgeSend ==
  [][/\ OncePerPlatform(bridge_out')
     /\ Len(bridge_out') > Len(bridge_out) =>
          /\ Len(bridge_out') = Len(bridge_out) + 2
          /\ ParentsPaired(bridge_out', Len(bridge_out) + 1, id_map)
     /\ MappedOnce(bridge_out')
     /\ \A n \in 1..Len(bridge_out) :
          bridge_out'[n].mapped > bridge_out[n].mapped =>
            /\ n % 2 = 1 =>
                 <<bridge_out'[n].id, bridge_out'[n + 1].id>> \in id_map'
            /\ n % 2 = 0 =>
                 <<bridge_out'[n - 1].id, bridge_out'[n].id>> \in id_map'
    ]_vars

\* both posts of a reply under a parent message have been acknowledged
BridgeSendAcked ==
  \E n \in 1..Len(bridge_out) :
    /\ bridge_out[n].parent # None
    /\ bridge_out[n].mapped = 1

\* the drain callables for entry e among the scheduler's tasks
DrainTasks(tasks, e) ==
  {k \in 1..Len(tasks) :
     /\ tasks[k].kind = "drain"
     /\ \E i \in 1..Len(tasks[k].entries) : tasks[k].entries[i] = e}

\* C24: drain resumption: the step in which the watcher registered by the
\* drain of an entry fires (the mapping of the parent becomes known) hands
\* the scheduler a drain of that entry, or starts one
DrainResumed ==
  [][\A key \in DOMAIN watchers : \A i \in 1..Len(watchers[key]) :
       (/\ watchers[key][i].kind = "drain"
        /\ key \notin DOMAIN watchers') =>
          \/ Cardinality(DrainTasks(sched', watchers[key][i].entry))
               > Cardinality(DrainTasks(sched, watchers[key][i].entry))
          \/ \E t \in DOMAIN frames' \ DOMAIN frames :
               frames'[t].todo = <<watchers[key][i].entry>>
    ]_vars

\* the delay of entry e in the records r, NoDelay for a record not yet made
DelayOf(r, e) == IF e \in 1..Len(r) THEN r[e].delay ELSE NoDelay

\* the step is a call add_users(users, True): it hands the scheduler
\* do_update for the time now + SURROGATE_DELAY
AddsNewUsers ==
  /\ calls' = calls + 1
  /\ Len(sched') = Len(sched) + 1
  /\ sched'[Len(sched')].kind = "drain"
  /\ sched'[Len(sched')].due = now + SURROGATE_DELAY

\* C25: surrogate delay: add_users(users, True) leaves every record it
\* touched with the delay max(previous delay, now + SURROGATE_DELAY), no
\* step lowers a delay, and a drain calls get_bot for a record or pops one
\* of its actions only when the record's delay is not greater than the
\* time the drain took at its start
SurrogateDelay ==
  [][/\ \A e \in 1..Len(recs) : recs'[e].delay >= recs[e].delay
     /\ AddsNewUsers =>
          \A i \in 1..Len(sched'[Len(sched')].entries) :
            \E e \in {sched'[Len(sched')].entries[i]} :
              recs'[e].delay =
                IF DelayOf(recs, e) > now + SURROGATE_DELAY
                THEN DelayOf(recs, e) ELSE now + SURROGATE_DELAY
     /\ \A t \in DOMAIN frames :
          /\ (/\ frames[t].pc = "check"
              /\ t \in DOMAIN frames'
              /\ frames'[t].pc = "pop") =>
               recs[frames'[t].e].delay <= frames[t].now
          /\ (/\ frames[t].pc = "pop"
              /\ recs'[frames[t].e].actions # recs[frames[t].e].actions) =>
               recs[frames[t].e].delay <= frames[t].now
    ]_vars

\* ------------------------------------------------------------------------
\* SpecGather: snapshot-events of Euphoria (gather_ids on the ids of the
\* log), between commands that watch a parent and the updates of relayed
\* messages
\* ------------------------------------------------------------------------
\* gather_ids(platform, ids): the RuntimeError of translate_ids is logged
GatherIdsOp(s, platform, ids) ==
  [TranslateIds(s, platform, ids, TRUE) EXCEPT !.err = "ok"]

GatherIds(platform, ids) == StoreCall(GatherIdsOp(Store, platform, ids))

\* the ids of the messages of a snapshot-event's log
SnapshotLogs ==
  {<<i>> : i \in EuphoriaMsgIds}
    \cup {<<i, j>> : i \in EuphoriaMsgIds, j \in EuphoriaMsgIds}

NextGather ==
  \/ \E ids \in SnapshotLogs : GatherIds("euphoria", ids)
  \/ \E parent \in EuphoriaMsgIds : WatchParent("euphoria", parent)
  \/ \E k \in EuphoriaMsgIds : \E v \in KnownIds("instant") \cup {None} :
       StoreUpdateIds("euphoria", <<<<k, v>>>>)

SpecGather == Init /\ [][NextGather]_vars

\* C26: gather_ids is a read-only warm-up: whatever the id_map and the
\* watchers are and whatever ids the log holds, the call leaves the id_map
\* as it was and calls no watcher
GatherReadOnly ==
  \A ids \in SnapshotLogs :
    /\ GatherIdsOp(Store, "euphoria", ids).s.m = id_map
    /\ GatherIdsOp(Store, "euphoria", ids).fired = <<>>

\* the ids of the batch logs that have a partial row (a, NULL) in m
Unacknowledged(logs, m) == {a \in LogIds(logs) : <<a, None>> \in m}

\* the step is Euphoria's reply to log request g
Replied(g) ==
  /\ g \in 1..Len(queries)
  /\ queries[g].stage = "asked"
  /\ queries'[g].stage # "asked"

\* no entry of the lists handed to the callback of request q has a null id
NoNullId(q) ==
  \A d \in 1..Len(q.delivered) : \A n \in 1..Len(q.delivered[d]) :
    q.delivered[d][n].id # None

\* C27, as stated: whatever rows the id_map holds, the step in which
\* Euphoria returns a batch calls the requester's callback, and no
\* delivered entry has a null id
LogRelayedAtOnce ==
  [][\A g \in 1..Len(queries') :
       /\ Replied(g) => queries'[g].stage = "sent"
       /\ NoNullId(queries'[g])]_vars

\* C27, amended: the step in which Euphoria returns a batch calls the
\* requester's callback if no id of the batch has a partial row (missing
\* rows are synthesised); otherwise the request waits for exactly the ids
\* with a partial row and the callback is called when the last of them is
\* completed; no delivered entry has a null id
LogRelayed ==
  [][\A g \in 1..Len(queries') :
       /\ Replied(g) =>
            IF Unacknowledged(queries'[g].logs, id_map) = {}
            THEN queries'[g].stage = "sent"
            ELSE /\ queries'[g].stage = "watching"
                 /\ queries'[g].pending =
                      Unacknowledged(queries'[g].logs, id_map)
       /\ (/\ g \in 1..Len(queries)
           /\ queries[g].stage = "watching"
           /\ queries'[g].stage # "watching") =>
            /\ queries'[g].stage = "sent"
            /\ queries[g].pending \cap Unacknowledged(queries[g].logs,
                                                     id_map') = {}
       /\ NoNullId(queries'[g])]_vars

\* a batch of two messages waits for the acknowledgement of one of them,
\* the other id has a counterpart
LogBatchWaiting ==
  \E g \in 1..Len(queries) :
    /\ queries[g].stage = "watching"
    /\ Len(queries[g].logs) = 2
    /\ Cardinality(queries[g].pending) = 1

\* the drain on thread t is about to handle a text action whose parent
\* translate_id cannot translate (RuntimeError)
TranslationFails(t) ==
  /\ frames[t].pc = "act"
  /\ frames[t].action.kind = "text"
  /\ TranslateId(Store, recs[frames[t].e].platform,
                 frames[t].action.parent, TRUE).err # "ok"

\* the posts submitted through the surrogates
Submitted(B) ==
  UNION {{<<b, n>> : n \in {k \in 1..Len(B[b].out) :
                                B[b].out[k].cmd = "submit_post"}} :
           b \in 1..Len(B)}

\* C28: translation failure in the drain: when translating the parent of
\* a text action raises RuntimeError, the drain drops exactly that action:
\* it writes no row and registers no watcher, submits no post, leaves the
\* queue as it is and goes on with the next popleft for the same user
DrainDropsFailed ==
  [][\A t \in DOMAIN frames :
       (/\ TranslationFails(t)
        /\ t \in DOMAIN frames'
        /\ frames'[t] # frames[t]) =>
          /\ frames'[t] = [frames[t] EXCEPT !.pc = "pop"]
          /\ id_map' = id_map
          /\ watchers' = watchers
          /\ recs' = recs
          /\ sched' = sched
          /\ Submitted(botobjs') = Submitted(botobjs)
    ]_vars

\* a drain has dropped a text action of an Instant user: the parent has no
\* row, and neither has the message
DrainDropped ==
  \E t \in DOMAIN frames :
    /\ frames[t].pc = "pop"
    /\ frames[t].action.kind = "text"
    /\ frames[t].action.parent # None
    /\ recs[frames[t].e].platform = "instant"
    /\ \A r \in id_map : r[2] # frames[t].action.msgid
                           /\ r[2] # frames[t].action.parent

\* ------------------------------------------------------------------------
\* SpecText: a client of Instant asks for the logs once, and Euphoria
\* answers with one message whose content ranges over the texts of up to
\* MaxTextLen characters and host names; process_result transcodes it
\* ------------------------------------------------------------------------
MaxTextLen == 4
TextChars == {"<", ">", "!", " "} \cup LinkTokens
LinkTexts == UNION {[1..n -> TextChars] : n \in 0..MaxTextLen}

NextText ==
  \/ queries = <<>> /\ RequestMessages("instant", None, None, NoLen)
  \/ \E k \in 1..Len(sched) : RunQuery(k)
  \/ \E g \in 1..Len(queries) : \E content \in LinkTexts :
       LogReply(g, <<[id |-> Eid(1, 0), parent |-> None,
                      content |-> content]>>)

SpecText == Init /\ [][NextText]_vars

\* the text in which the link spans of parsed that stand between a text
\* ending with "<" or "<!" and a text starting with ">" are left as they
\* are, the other spans being transcoded
PassedThrough(parsed) ==
  Join([idx \in 1..Len(parsed) |->
          IF parsed[idx][1] = "link" /\ SigilledAnywhere(parsed, idx)
          THEN parsed[idx][2] ELSE Item(parsed, idx)])

\* C29: Euphoria to Instant: a link span whose preceding text ends with
\* "<" or "<!" and whose following text starts with ">" is emitted
\* unchanged, whatever comes before the "<"
LinkPassThrough ==
  \A g \in 1..Len(queries) : \A d \in 1..Len(queries[g].delivered) :
    \A n \in 1..Len(queries[g].delivered[d]) :
      queries[g].delivered[d][n].text =
        PassedThrough(autolink(queries[g].logs[n].content))

\* C30: the before that query_logs sends for a translated upper bound has
\* 13 characters and is the number int36(before) - 1 in base 36
LogsBeforePadded ==
  \A g \in 1..Len(queries) :
    queries[g].sent # None =>
      /\ Len(queries[g].sent) >= 13
      /\ int36(queries[g].sent) = queries[g].translated[1] - 1

\* the drain on thread t has got its bot from get_bot in this step
GotBot(t) ==
  /\ t \in DOMAIN frames'
  /\ frames'[t].pc = "pop"
  /\ t \in DOMAIN frames => frames[t].pc = "check"

\* C31: at most one surrogate per identity: make_bot is called only for an
\* identity that has no entry in the bot map, the entry of an identity is
\* never replaced while the identity has one, and every drain that calls
\* get_bot receives the bot of the map, so concurrent callers for one
\* identity receive the same bot
OneSurrogate ==
  [][/\ Len(botobjs') > Len(botobjs) =>
          /\ Len(botobjs') = Len(botobjs) + 1
          /\ botobjs'[Len(botobjs')].ident \notin DOMAIN bots
          /\ bots'[botobjs'[Len(botobjs')].ident] = Len(botobjs')
     /\ \A ident \in DOMAIN bots \cap DOMAIN bots' :
          bots'[ident] = bots[ident]
     /\ \A t \in DOMAIN frames' :
          GotBot(t) =>
            /\ BotIdent(recs[frames'[t].e]) \in DOMAIN bots'
            /\ bots'[BotIdent(recs[frames'[t].e])] = frames'[t].bot
            /\ botobjs'[frames'[t].bot].ident = BotIdent(recs[frames'[t].e])
    ]_vars

\* two drains on different threads are inside the loop for one user with
\* the same bot
SharedSurrogate ==
  \E t1 \in DOMAIN frames : \E t2 \in DOMAIN frames :
    /\ t1 # t2
    /\ frames[t1].pc # "check"
    /\ frames[t2].pc # "check"
    /\ frames[t1].e = frames[t2].e
    /\ frames[t1].bot = frames[t2].bot

\* the drain on thread t is about to call translate_id for the parent of
\* a text action of an Instant user that has no row: translate_ids calls
\* generate_id('instant', parent)
AsksEuphoriaId(t) ==
  /\ TranslationFails(t)
  /\ recs[frames[t].e].platform = "instant"
  /\ SelectByInstant(id_map, frames[t].action.parent) = {}

\* C32: no drain reaches generate_id with platform 'instant': no post of
\* Instant is dropped because its parent has no row in the id_map
NoEuphoriaSynthesis ==
  [][\A t \in DOMAIN frames :
       ~(/\ AsksEuphoriaId(t)
         /\ t \in DOMAIN frames'
         /\ frames'[t] # frames[t])]_vars

====
